---- MODULE Spec2Model ----
(***************************************************************************)
(* A model of the PDOK services QGIS processing plugin.                    *)
(*                                                                         *)
(* Byte strings are sequences of one-character strings; "CR", "LF" and     *)
(* "TAB" stand for the bytes \r, \n and \t.  A symbol such as "T1" stands  *)
(* for an opaque run of bytes without line breaks (a GeoTIFF image).       *)
(***************************************************************************)
EXTENDS Integers, Sequences, FiniteSets, TLC

VARIABLES
    \* --- multipart parser (processing_ahn3.py, module level functions)
    ppc,        \* "input" | "built" | "parsed"
    boundary,   \* the boundary token the synthetic buffer is built with
    inparts,    \* the header/body pairs the synthetic buffer is built with
    sepCrlf,    \* whether the builder writes CRLF after an inner delimiter
    content,    \* the response buffer handed to parse_response
    result,     \* what parse_response returned (or that it raised)
    \* --- window and pixel arithmetic of get_ahn_val
    spc,        \* "input" | "requested" | "read"
    query,      \* the query: point (x, y), grid origin and cell size, and
                \* the GeoTransform of the raster the service answers with
    url,        \* the GetCoverage request built for the query
    read,       \* the window read from band 1, as (xoff, yoff, xsize, ysize)
    \* --- a run of processAlgorithm of one of the three tools
    tool,       \* the class of the algorithm
    pc,         \* "start" | "rows" | "returned"
    params,     \* the parameters of the run
    rows,       \* input_layer.getFeatures()
    idx,        \* the number of input features the loop has taken
    sink,       \* the features added to the output sink
    outcome,    \* what processAlgorithm returned or raised
    canceled,   \* feedback.isCanceled()
    requests,   \* the HTTP requests issued, each with the row it is for
    vsimem,     \* the files of GDAL's /vsimem file system
    log,        \* QgsMessageLog
    sampled,    \* the last call of get_ahn_val: arguments and locals
    replies,    \* the replies to the requests, each with the row it is for
    \* --- a call of http_client.get_request_json
    hpc,        \* "input" | "done"
    hreply,     \* the reply get_reply hands to get_request_json
    hresult     \* what get_request_json returned or raised, and the log

parserVars == <<ppc, boundary, inparts, sepCrlf, content, result>>
samplerVars == <<spc, query, url, read>>
toolVars == <<tool, pc, params, rows, idx, sink, outcome, canceled, requests,
              vsimem, log, sampled, replies>>
httpVars == <<hpc, hreply, hresult>>
vars == <<parserVars, samplerVars, toolVars, httpVars>>

----------------------------------------------------------------------------
(* Bounds *)

\* The largest number of parts of a synthetic multipart buffer.
MaxParts == 2
\* Query coordinates and grid origins range over -MaxCoord..MaxCoord.
MaxCoord == 5
\* Cell sizes range over 1..MaxCell.
MaxCell == 2
\* The largest number of features of an input layer.
MaxRows == 2

\* The significant bits of the floating-point numbers of the arithmetic
\* that rounds (Python's float has 53), and the largest magnitude of its
\* inputs.
Precision == 3
MaxFloat == 16

----------------------------------------------------------------------------
(* Bytes *)

CRLF == <<"CR", "LF">>
CRLFCRLF == <<"CR", "LF", "CR", "LF">>
DASHES == <<"-", "-">>

\* bytes.lower() / str.lower() on the letters of the model's alphabet
LowerCh(c) ==
    CASE c = "C" -> "c"
      [] c = "D" -> "d"
      [] c = "I" -> "i"
      [] c = "T" -> "t"
      [] OTHER -> c

Lower(s) == [i \in 1..Len(s) |-> LowerCh(s[i])]

\* Python's s[lo:hi] for 0 <= lo, with hi clipped to len(s)
Slice(s, lo, hi) ==
    LET h == IF hi > Len(s) THEN Len(s) ELSE hi
    IN  IF lo >= h THEN <<>> ELSE SubSeq(s, lo + 1, h)

\* whether sub occurs in s at the 0-based offset i
OccursAt(s, sub, i) ==
    /\ i >= 0
    /\ i + Len(sub) <= Len(s)
    /\ \A k \in 1..Len(sub) : s[i + k] = sub[k]

\* bytes.find(sub): the lowest 0-based offset of sub in s, or -1
Find(s, sub) ==
    LET hits == {i \in 0..Len(s) : OccursAt(s, sub, i)}
    IN  IF hits = {} THEN -1
        ELSE CHOOSE i \in hits : \A j \in hits : i <= j

\* sub in s
Contains(s, sub) == Find(s, sub) # -1

\* bytes.split(sep) for a non-empty sep: leftmost, non-overlapping
RECURSIVE Split(_, _)
Split(s, sep) ==
    LET i == Find(s, sep)
    IN  IF i = -1 THEN <<s>>
        ELSE <<Slice(s, 0, i)>> \o Split(Slice(s, i + Len(sep), Len(s)), sep)

\* the bytes that bytes.lstrip() and str.lstrip() remove
Whitespace == {" ", "TAB", "CR", "LF"}

RECURSIVE LStripSet(_, _)
LStripSet(s, set) ==
    IF s # <<>> /\ Head(s) \in set THEN LStripSet(Tail(s), set) ELSE s

LStrip(s) == LStripSet(s, Whitespace)

RECURSIVE Join(_, _)
Join(seqs, sep) ==
    IF seqs = <<>> THEN <<>>
    ELSE IF Len(seqs) = 1 THEN seqs[1]
    ELSE seqs[1] \o sep \o Join(Tail(seqs), sep)

----------------------------------------------------------------------------
(* get_boundary, split_on_find *)

\* re.search(b"^\r\n(--.*)\r\n", response): "." matches every byte but \n
\* and ".*" is greedy, so group 1 runs to the CR before the first LF that
\* follows the two dashes.  No match returns the str "" (found = FALSE).
\* group 1 taken after the two dashes: the pattern b"^\r\n--(.*)\r\n"
get_boundary_token(response) ==
    LET lfs == {i \in 5..Len(response) : response[i] = "LF"}
        q == CHOOSE i \in lfs : \A r \in lfs : i <= r
    IN  IF /\ OccursAt(response, CRLF \o DASHES, 0)
           /\ lfs # {}
           /\ q >= 6
           /\ response[q - 1] = "CR"
        THEN [found |-> TRUE, val |-> SubSeq(response, 5, q - 2)]
        ELSE [found |-> FALSE, val |-> <<>>]

get_boundary(response) ==
    LET lfs == {i \in 5..Len(response) : response[i] = "LF"}
        q == CHOOSE i \in lfs : \A r \in lfs : i <= r
    IN  IF /\ OccursAt(response, CRLF \o DASHES, 0)
           /\ lfs # {}
           /\ q >= 6
           /\ response[q - 1] = "CR"
        THEN [found |-> TRUE, val |-> SubSeq(response, 3, q - 2)]
        ELSE [found |-> FALSE, val |-> <<>>]

\* a split at the last occurrence of bound instead of the first
split_on_find_last(c, bound) ==
    LET hits == {i \in 0..Len(c) : OccursAt(c, bound, i)}
        point == IF hits = {} THEN -1
                 ELSE CHOOSE i \in hits : \A j \in hits : j <= i
    IN  <<Slice(c, 0, IF point = -1 THEN Len(c) - 1 ELSE point),
          Slice(c, (IF point = -1 THEN -1 ELSE point) + Len(bound), Len(c))>>

split_on_find(c, bound) ==
    LET point == Find(c, bound)
    IN  <<Slice(c, 0, IF point = -1 THEN Len(c) - 1 ELSE point),
          Slice(c, (IF point = -1 THEN -1 ELSE point) + Len(bound), Len(c))>>

----------------------------------------------------------------------------
(* header_parser: email.parser.HeaderParser().parsestr(...).items() *)

\* the bytes [\041-\071\073-\176] of the model's alphabet: printable, not
\* blank and not the colon ("xFF" is a byte that is not valid UTF-8, "T1"
\* and "T2" are binary images)
NotPrintable == {" ", "TAB", "CR", "LF", ":", "xFF", "T1", "T2"}

\* str.splitlines(True): lines with their line ends kept
RECURSIVE SplitLines(_)
SplitLines(s) ==
    LET brk == {i \in 1..Len(s) : s[i] \in {"CR", "LF"}}
        i == CHOOSE i \in brk : \A j \in brk : i <= j
        e == IF s[i] = "CR" /\ i < Len(s) /\ s[i + 1] = "LF" THEN i + 1 ELSE i
    IN  IF s = <<>> THEN <<>>
        ELSE IF brk = {} THEN <<s>>
        ELSE <<SubSeq(s, 1, e)>> \o SplitLines(SubSeq(s, e + 1, Len(s)))

\* feedparser.headerRE, ^([\041-\071\073-\176]*:|[\t ]), on one line (the
\* alternative "From " needs letters the model's alphabet does not have)
IsHeaderLine(line) ==
    /\ line # <<>>
    /\ \/ line[1] \in {" ", "TAB"}
       \/ \E i \in 1..Len(line) :
            /\ line[i] = ":"
            /\ \A j \in 1..(i - 1) : line[j] \notin NotPrintable

\* the lines FeedParser._parsegen collects as headers: all lines up to the
\* first one that headerRE does not match
RECURSIVE HeaderLines(_)
HeaderLines(lines) ==
    IF lines = <<>> \/ ~IsHeaderLine(Head(lines)) THEN <<>>
    ELSE <<Head(lines)>> \o HeaderLines(Tail(lines))

RECURSIVE RStripSet(_, _)
RStripSet(s, set) ==
    IF s # <<>> /\ s[Len(s)] \in set
    THEN RStripSet(SubSeq(s, 1, Len(s) - 1), set) ELSE s

\* Compat32.header_source_parse: name and value of the source lines of one
\* header
header_source_parse(sourcelines) ==
    LET first == sourcelines[1]
        i == Find(first, <<":">>)
        name == Slice(first, 0, i)
        value == LStripSet(Slice(first, i + 1, Len(first)), {" ", "TAB"})
                   \o Join(Tail(sourcelines), <<>>)
    IN  <<name, RStripSet(value, {"CR", "LF"})>>

\* FeedParser._parse_headers: last holds the source lines of the header
\* being collected (empty: none), acc the headers set so far
RECURSIVE ParseHeaders(_, _, _)
ParseHeaders(lines, last, acc) ==
    LET flushed == IF last = <<>> THEN acc
                   ELSE Append(acc, header_source_parse(last))
    IN  IF lines = <<>> THEN flushed
        ELSE LET line == Head(lines)
             IN  IF line[1] \in {" ", "TAB"}
                 THEN IF last = <<>>
                      THEN ParseHeaders(Tail(lines), last, acc)
                      ELSE ParseHeaders(Tail(lines), Append(last, line), acc)
                 ELSE IF Find(line, <<":">>) = 0
                 THEN ParseHeaders(Tail(lines), <<>>, flushed)
                 ELSE ParseHeaders(Tail(lines), <<line>>, flushed)

\* bytes.decode("utf-8") raises UnicodeDecodeError on a byte sequence that
\* is not UTF-8; on the ASCII bytes of the alphabet code units are kept
DecodeFails(s) == \E i \in 1..Len(s) : s[i] = "xFF"

\* header_parser(string, encoding): the (key, value) pairs in order
header_parser(string) ==
    ParseHeaders(HeaderLines(SplitLines(string)), <<>>, <<>>)

\* requests.structures.CaseInsensitiveDict(pairs): lower(key) -> (key,
\* value), a later pair replacing an earlier one with the same lowered key
CaseInsensitiveDict(pairs) ==
    LET keys == {Lower(pairs[i][1]) : i \in 1..Len(pairs)}
        lastOf(k) == CHOOSE i \in 1..Len(pairs) :
                        /\ Lower(pairs[i][1]) = k
                        /\ \A j \in 1..Len(pairs) :
                             Lower(pairs[j][1]) = k => j <= i
    IN  [k \in keys |-> pairs[lastOf(k)]]

----------------------------------------------------------------------------
(* parse_response *)

\* a loop that emits a record without headers for a fragment that has no
\* CRLF CRLF, in place of passing it over
RECURSIVE ParsePartsKeep(_, _)
ParsePartsKeep(parts, acc) ==
    IF parts = <<>> THEN [raised |-> "none", items |-> acc]
    ELSE IF ~Contains(Head(parts), CRLFCRLF)
    THEN ParsePartsKeep(Tail(parts),
            Append(acc, [headers |-> CaseInsensitiveDict(<<>>), content |-> Head(parts)]))
    ELSE IF DecodeFails(LStrip(split_on_find(Head(parts), CRLFCRLF)[1]))
    THEN [raised |-> "UnicodeDecodeError", items |-> <<>>]
    ELSE ParsePartsKeep(Tail(parts),
            Append(acc,
                   [headers |-> CaseInsensitiveDict(
                                   header_parser(LStrip(split_on_find(Head(parts), CRLFCRLF)[1]))),
                    content |-> split_on_find(Head(parts), CRLFCRLF)[2]]))

\* the loop body of parse_response for the fragments from index i on
RECURSIVE ParseParts(_, _)
ParseParts(parts, acc) ==
    IF parts = <<>> THEN [raised |-> "none", items |-> acc]
    ELSE LET part == Head(parts)
             fb == split_on_find(part, CRLFCRLF)
             hdr == LStrip(fb[1])
         IN  IF ~Contains(part, CRLFCRLF) THEN ParseParts(Tail(parts), acc)
             ELSE IF DecodeFails(hdr)
             THEN [raised |-> "UnicodeDecodeError", items |-> <<>>]
             ELSE ParseParts(Tail(parts),
                    Append(acc, [headers |-> CaseInsensitiveDict(header_parser(hdr)),
                                 content |-> fb[2]]))

\* parse_response(content).  Without a boundary match sep is the str "" and
\* b"".join((b"\r\n", "")) raises TypeError.
parse_response(c) ==
    LET sep == get_boundary(c)
        parts == Split(c, CRLF \o sep.val)
    IN  IF ~sep.found THEN [raised |-> "TypeError", items |-> <<>>]
        ELSE ParseParts(Slice(parts, 1, Len(parts) - 1), <<>>)

----------------------------------------------------------------------------
(* The synthetic multipart buffer of the round-trip property *)

\* one "Key: Value" line per header, joined by CRLF
HeaderBlock(headers) ==
    Join([i \in 1..Len(headers) |-> headers[i][1] \o <<":", " ">> \o headers[i][2]],
         CRLF)

PartBytes(p) == HeaderBlock(p.headers) \o CRLFCRLF \o p.body

\* CRLF --token CRLF, the parts separated by CRLF --token (followed by
\* CRLF when crlf is set, as RFC 2046 writers do), closed by CRLF --token--
BuildMultipart(tok, parts, crlf) ==
    LET delim == CRLF \o DASHES \o tok
        inner == IF crlf THEN delim \o CRLF ELSE delim
    IN  delim \o CRLF
          \o Join([i \in 1..Len(parts) |-> PartBytes(parts[i])], inner)
          \o delim \o DASHES

----------------------------------------------------------------------------
(* Inputs of the parser model *)

\* "Content-Type", "content-type", "Content-ID"
KEY_CT == <<"C", "o", "n", "t", "e", "n", "t", "-", "T", "y", "p", "e">>
key_ct == <<"c", "o", "n", "t", "e", "n", "t", "-", "t", "y", "p", "e">>
KEY_ID == <<"C", "o", "n", "t", "e", "n", "t", "-", "I", "D">>
\* "image/tiff", "text/xml"
IMAGE_TIFF == <<"i", "m", "a", "g", "e", "/", "t", "i", "f", "f">>
TEXT_XML == <<"t", "e", "x", "t", "/", "x", "m", "l">>

\* "abc123"
ABC123 == <<"a", "b", "c", "1", "2", "3">>

Tokens == {<<"a">>, ABC123, <<"a", "b", "CR">>, <<"a", "LF", "b">>}

Parts ==
    { [headers |-> <<<<KEY_CT, IMAGE_TIFF>>>>, body |-> <<"T1">>],
      [headers |-> <<<<key_ct, TEXT_XML>>, <<KEY_ID, <<"g", ":", "1">>>>>>,
       body |-> <<"<", "x", ">">>],
      \* a body that holds CRLF CRLF itself
      [headers |-> <<<<KEY_CT, IMAGE_TIFF>>>>,
       body |-> <<"T2">> \o CRLFCRLF \o <<"T1">>],
      [headers |-> <<<<KEY_ID, <<>>>>>>, body |-> <<>>],
      \* no header at all
      [headers |-> <<>>, body |-> <<"x">>],
      \* a value with a leading blank
      [headers |-> <<<<KEY_CT, <<" ">> \o TEXT_XML>>>>, body |-> <<"x">>],
      \* a body that holds CRLF --a
      [headers |-> <<<<KEY_CT, IMAGE_TIFF>>>>,
       body |-> <<"T1">> \o CRLF \o DASHES \o <<"a", "T2">>],
      \* two names equal up to case
      [headers |-> <<<<KEY_CT, TEXT_XML>>, <<key_ct, IMAGE_TIFF>>>>,
       body |-> <<"T2">>] }

PartLists == UNION {[1..n -> Parts] : n \in 0..MaxParts}

NoResult == [raised |-> "none", items |-> <<>>]

----------------------------------------------------------------------------
(* The parser as a state machine: build a synthetic buffer, parse it *)

\* Each specification runs one part of the program and holds the state of
\* the other parts still.
NoUrl == [request |-> "none"]
NoRead == <<>>

SamplerIdle ==
    /\ spc = "idle"
    /\ query = [x |-> 0, y |-> 0, grid |-> [origin |-> <<0, 0>>, cell_size |-> 1],
            gt |-> <<0, 1, 0, 0, 0, -1>>]
    /\ url = NoUrl
    /\ read = NoRead

NoException == [type |-> "none", message |-> <<>>, traceback |-> <<>>]
NoMessage == <<>>
Running == [kind |-> "running", results |-> <<>>, cause |-> NoException,
            message |-> NoMessage]
NoSample == [called |-> FALSE]

ToolIdle ==
    /\ tool = "none"
    /\ pc = "idle"
    /\ params = [in_crs |-> "EPSG:28992", out_crs |-> "EPSG:28992"]
    /\ rows = <<>>
    /\ idx = 0
    /\ sink = <<>>
    /\ outcome = Running
    /\ canceled = FALSE
    /\ requests = <<>>
    /\ vsimem = {}
    /\ log = <<>>
    /\ sampled = NoSample
    /\ replies = <<>>

NoReply == [err |-> "NoError", replyError |-> "NoError", content_type |-> <<>>,
            content |-> <<>>]
NoJson == [raised |-> "none", message |-> <<>>, data |-> <<>>, log |-> <<>>]

HttpIdle ==
    /\ hpc = "idle"
    /\ hreply = NoReply
    /\ hresult = NoJson

ParserIdle ==
    /\ ppc = "idle"
    /\ boundary = <<>>
    /\ inparts = <<>>
    /\ sepCrlf = FALSE
    /\ content = <<>>
    /\ result = NoResult

InitParser ==
    /\ SamplerIdle
    /\ ToolIdle
    /\ HttpIdle
    /\ ppc = "input"
    /\ boundary \in Tokens
    /\ inparts \in PartLists
    /\ sepCrlf \in BOOLEAN
    /\ content = <<>>
    /\ result = NoResult

Build ==
    /\ ppc = "input"
    /\ content' = BuildMultipart(boundary, inparts, sepCrlf)
    /\ ppc' = "built"
    /\ UNCHANGED <<boundary, inparts, sepCrlf, result, samplerVars, toolVars, httpVars>>

Parse ==
    /\ ppc = "built"
    /\ result' = parse_response(content)
    /\ ppc' = "parsed"
    /\ UNCHANGED <<boundary, inparts, sepCrlf, content, samplerVars, toolVars, httpVars>>

NextParser == Build \/ Parse

SpecParser == InitParser /\ [][NextParser]_vars

----------------------------------------------------------------------------
(* C1: multipart round trip *)

\* the (name, value) pairs a parsed record holds
StoredPairs(headers) == {headers[k] : k \in DOMAIN headers}

GivenPairs(headers) == {headers[i] : i \in 1..Len(headers)}

\* N records, whose headers and content are those of the N given parts, in
\* the order of the buffer
RoundTrips(res, parts) ==
    /\ res.raised = "none"
    /\ Len(res.items) = Len(parts)
    /\ \A i \in 1..Len(parts) :
         /\ StoredPairs(res.items[i].headers) = GivenPairs(parts[i].headers)
         /\ res.items[i].content = parts[i].body

\* the offsets at which BuildMultipart writes CRLF --token
DelimiterOffsets(tok, parts, crlf) ==
    LET dlen == Len(CRLF \o DASHES \o tok)
        ks == IF parts = <<>> THEN {0} ELSE 1..Len(parts)
    IN  {0} \cup {Len(BuildMultipart(tok, SubSeq(parts, 1, k), crlf)) - dlen - 2 :
                    k \in ks}

\* CRLF --token occurs in the buffer only where the builder wrote it
DelimiterOnlyWritten(buf, tok, parts, crlf) ==
    {i \in 0..Len(buf) : OccursAt(buf, CRLF \o DASHES \o tok, i)}
        = DelimiterOffsets(tok, parts, crlf)

\* RFC 822 headers: at least one; names non-empty, printable, without
\* colon, distinct up to case; values UTF-8 text without line breaks and
\* without leading blanks
WellFormedHeaders(headers) ==
    /\ headers # <<>>
    /\ \A i \in 1..Len(headers) :
         LET name == headers[i][1]
             value == headers[i][2]
         IN  /\ name # <<>>
             /\ \A k \in 1..Len(name) : name[k] \notin NotPrintable
             /\ \A k \in 1..Len(value) :
                  value[k] \notin {"CR", "LF", "xFF", "T1", "T2"}
             /\ value # <<>> => value[1] \notin {" ", "TAB"}
    /\ \A i, j \in 1..Len(headers) :
         Lower(headers[i][1]) = Lower(headers[j][1]) => i = j

RoundTripInput ==
    /\ \A k \in 1..Len(boundary) : boundary[k] # "LF"
    /\ \A i \in 1..Len(inparts) : WellFormedHeaders(inparts[i].headers)
    /\ DelimiterOnlyWritten(content, boundary, inparts, sepCrlf)

\* C1 as claimed: every synthetic buffer, whatever its token, headers and
\* bodies, parses back into its N header/body pairs, in order.
C1_RoundTripAnyInput == (ppc = "parsed") => RoundTrips(result, inparts)

\* C1 (amended): a synthetic buffer whose token has no line feed, whose
\* parts each have well-formed RFC 822 headers, and in which CRLF --token
\* occurs only as a delimiter, parses back into its N header/body pairs,
\* in order.
C1_RoundTrip ==
    (ppc = "parsed" /\ RoundTripInput) => RoundTrips(result, inparts)

\* two different parts, one with CRLF CRLF inside its body, parsed back
C1_Witness ==
    /\ ppc = "parsed"
    /\ RoundTripInput
    /\ Len(inparts) = 2
    /\ inparts[1] # inparts[2]
    /\ Contains(inparts[2].body, CRLFCRLF)
    /\ Len(result.items) = 2

----------------------------------------------------------------------------
(* get_ahn_val: the subset window and the pixel index *)

\* Coordinates, origins, cell sizes and GeoTransform entries are integers
\* in one fixed unit (a tenth of a metre for the national grid).

\* division rounding toward zero, as C's integer division does
TruncDiv(a, b) ==
    LET abs(v) == IF v < 0 THEN -v ELSE v
        m == abs(a) \div abs(b)
    IN  IF (a < 0) = (b < 0) THEN m ELSE -m

\* floor(a / b) and a // b for b # 0
FloorDiv(a, b) == IF b > 0 THEN a \div b ELSE (-a) \div (-b)

\* bounds that span one cell only
SubsetBoundsOneCell(v, origin, cell_size) ==
    LET lower == origin + (FloorDiv(v - origin, cell_size) * cell_size)
    IN  <<lower, lower + cell_size>>

\* lines 193-196: the bounds of one axis
SubsetBounds(v, origin, cell_size) ==
    LET lower == origin + (FloorDiv(v - origin, cell_size) * cell_size)
    IN  <<lower, lower + (2 * cell_size)>>

\* line 197: the GetCoverage request
GetCoverageUrl(x, y, grid, coverage_id) ==
    [request |-> "GetCoverage",
     coverage |-> coverage_id,
     format |-> IMAGE_TIFF,
     subset_x |-> SubsetBounds(x, grid.origin[1], grid.cell_size),
     subset_y |-> SubsetBounds(y, grid.origin[2], grid.cell_size)]

\* lines 211-213: the window handed to band.ReadRaster; gt[1] .. gt[6] are
\* the GeoTransform's gt0 .. gt5
ReadWindow(x, y, gt) ==
    LET px == FloorDiv(x - gt[1], gt[2])
        py == FloorDiv(y - gt[4], gt[6])
    IN  <<px, py, 1, 1>>

\* the spec's examples: origin (0, 0), cell size 2, x = 5; and
\* gt = (100000, 0.5, 0, 500000, 0, -0.5), point (100001.2, 499998.7),
\* in tenths
ExampleGt == <<1000000, 5, 0, 5000000, 0, -5>>
ExamplePoint == <<1000012, 4999987>>

Grids ==
    [origin : {<<0, 0>>, <<-MaxCoord, 1>>, <<2, MaxCoord>>}, cell_size : 1..MaxCell]

GeoTransforms ==
    { <<0, 1, 0, 0, 0, -1>>, <<-3, 2, 0, 4, 0, -2>>, <<1, -2, 0, -1, 0, 3>> }

\* the GeoTransform of a raster that is exactly the window requested for
\* (x, y): its upper left corner is (x_lower, y_upper), its cells are
\* cell_size wide and high
WindowGt(x, y, grid) ==
    <<SubsetBounds(x, grid.origin[1], grid.cell_size)[1], grid.cell_size, 0,
      SubsetBounds(y, grid.origin[2], grid.cell_size)[2], 0, -grid.cell_size>>

Queries ==
    [x : -MaxCoord..MaxCoord, y : {-MaxCoord, -1, 0, MaxCoord},
     grid : Grids, gt : GeoTransforms]
    \cup
    { [x |-> ExamplePoint[1], y |-> ExamplePoint[2],
       grid |-> [origin |-> <<1000000, 4999980>>, cell_size |-> 5],
       gt |-> ExampleGt] }
    \cup
    { [x |-> x, y |-> y, grid |-> g, gt |-> WindowGt(x, y, g)] :
        x \in -MaxCoord..MaxCoord, y \in {-MaxCoord, -1, 0, MaxCoord}, g \in Grids }

InitSampler ==
    /\ ParserIdle
    /\ ToolIdle
    /\ HttpIdle
    /\ spc = "input"
    /\ query \in Queries
    /\ url = NoUrl
    /\ read = NoRead

\* lines 191-198: the request for the window around (x, y)
RequestWindow ==
    /\ spc = "input"
    /\ url' = GetCoverageUrl(query.x, query.y, query.grid, "ahn3_05m_dsm")
    /\ spc' = "requested"
    /\ UNCHANGED <<query, read, parserVars, toolVars, httpVars>>

\* lines 208-213: the pixel read from the raster the service answered with
ReadPixel ==
    /\ spc = "requested"
    /\ read' = ReadWindow(query.x, query.y, query.gt)
    /\ spc' = "read"
    /\ UNCHANGED <<query, url, parserVars, toolVars, httpVars>>

NextSampler == RequestWindow \/ ReadPixel

SpecSampler == InitSampler /\ [][NextSampler]_vars

----------------------------------------------------------------------------
(* C5, C6: the window formula and the pixel index formula *)

\* floor(a / b) as mathematics defines it: the integer k with
\* k <= a / b < k + 1
FloorOfQuotient(a, b) ==
    LET n == (IF a < 0 THEN -a ELSE a) + 1
    IN  CHOOSE k \in -n..n :
           IF b > 0 THEN k * b <= a /\ a < (k + 1) * b
                    ELSE k * b >= a /\ a > (k + 1) * b

C6_PixelIndexFormula ==
    (spc = "read") =>
        /\ read = <<FloorOfQuotient(query.x - query.gt[1], query.gt[2]),
                    FloorOfQuotient(query.y - query.gt[4], query.gt[6]), 1, 1>>
        /\ (query.gt = ExampleGt /\ <<query.x, query.y>> = ExamplePoint) => read = <<2, 2, 1, 1>>

C6_Witness ==
    /\ spc = "read"
    /\ query.gt = ExampleGt
    /\ <<query.x, query.y>> = ExamplePoint
    /\ read = <<2, 2, 1, 1>>

----------------------------------------------------------------------------
(* Coordinate reference systems, features, rasters, replies *)

CRSs == {"EPSG:28992", "EPSG:4326", "EPSG:3857"}

\* QgsCoordinateTransform: every CRS is the national grid (EPSG:28992)
\* shifted by an offset of its own, so that transforms compose and a
\* transform applied to coordinates of another CRS than its source gives
\* coordinates of no CRS
Offset(crs) ==
    CASE crs = "EPSG:28992" -> <<0, 0>>
      [] crs = "EPSG:4326" -> <<-300, 200>>
      [] OTHER -> <<50, 70>>

\* geom.transform(QgsCoordinateTransform(src, dst, ...))
Transform(src, dst, pt) ==
    <<pt[1] - Offset(src)[1] + Offset(dst)[1],
      pt[2] - Offset(src)[2] + Offset(dst)[2]>>

\* the coordinates in crs of the place with national grid coordinates rd
InCrs(rd, crs) == Transform("EPSG:28992", crs, rd)

\* the fields of the input layer and its features: the place of the point
\* (national grid coordinates) and the attribute values
FieldNames == <<"id", "adres">>

\* attribute values (QVariant): a string, a number or NULL
Str(v) == [t |-> "str", s |-> v, n |-> 0]
Num(v) == [t |-> "num", s |-> "", n |-> v]
Null == [t |-> "null", s |-> "", n |-> 0]

Features ==
    { [rd |-> ExamplePoint, attrs |-> <<Str("f1"), Str("Dam 1")>>],
      [rd |-> <<1000001, 4999999>>, attrs |-> <<Str("f2"), Null>>] }

FeatureLists == UNION {[1..n -> Features] : n \in 0..MaxRows}

\* the no-data value 3.4028234663852886e38 is the largest float32, whose
\* bits are 0x7F7FFFFF; samples are float32 values, held as their bits
NODATA == 2139095039

\* GDAL's decoding of the GeoTIFF images "T1" and "T2": GeoTransform, size
\* and the float32 samples of band 1
TiffImages == {"T1", "T2"}

Raster(t) ==
    IF t = "T1" THEN [gt |-> ExampleGt, xsize |-> 4, ysize |-> 4]
    ELSE [gt |-> <<1000010, 5, 0, 4999990, 0, -5>>, xsize |-> 2, ysize |-> 2]

Band1(t, px, py) ==
    IF t = "T1" THEN (IF px = 0 /\ py = 0 THEN NODATA ELSE 1069547520 + px + 4 * py)
    ELSE 1073741824 + px + 2 * py

\* the grid of the coverage, from the capabilities of the service
AhnGrid == [origin |-> <<1000000, 4999980>>, cell_size |-> 5]

PartXml ==
    [headers |-> <<<<KEY_CT, TEXT_XML>>, <<KEY_ID, <<"g", "m", "l">>>>>>,
     body |-> <<"<", "x", ">">>]
PartTiff(t) == [headers |-> <<<<KEY_CT, IMAGE_TIFF>>>>, body |-> <<t>>]
PartTiffLower(t) == [headers |-> <<<<key_ct, IMAGE_TIFF>>>>, body |-> <<t>>]
PartNoType == [headers |-> <<<<KEY_ID, <<"x">>>>>>, body |-> <<"x">>]

WcsToken == <<"w", "c", "s">>

\* a reply of QgsBlockingNetworkRequest: the error of the request, the
\* error of the reply (an HTTP status of 400 or more is an error of the
\* reply), the Content-Type header and the body
Reply(err, replyError, content_type, c) ==
    [err |-> err, replyError |-> replyError, content_type |-> content_type,
     content |-> c]

Ok(content_type, c) == Reply("NoError", "NoError", content_type, c)

\* what the network may answer to a GetCoverage request
AhnReplies ==
    { Ok("multipart/related", c) : c \in
        { BuildMultipart(WcsToken, <<PartXml, PartTiff("T1")>>, TRUE),
          BuildMultipart(WcsToken, <<PartTiff("T1"), PartXml, PartTiffLower("T2")>>, TRUE),
          BuildMultipart(WcsToken, <<PartXml>>, TRUE),
          BuildMultipart(WcsToken, <<>>, TRUE),
          BuildMultipart(WcsToken, <<PartNoType, PartTiff("T1")>>, TRUE),
          BuildMultipart(WcsToken, <<PartTiff("x")>>, TRUE) } }
    \cup
    { Ok("application/xml", <<"<", "x", ">">>),
      Reply("ServerExceptionError", "InternalServerError", "text/xml", <<"<", "x", ">">>),
      Reply("NetworkError", "HostNotFoundError", "", <<>>) }

----------------------------------------------------------------------------
(* http_client.get_reply, get_request_bytes *)

\* get_reply: what it logs for a reply
get_reply_log(reply) ==
    (IF reply.err = "NoError" THEN <<"SERVER ERROR OCCURED">> ELSE <<>>)
      \o (IF reply.replyError = "NoError" THEN <<"SERVER ERROR OCCURED">> ELSE <<>>)

get_request_bytes(reply) == reply.content

----------------------------------------------------------------------------
(* PDOKWCSTool.get_ahn_val *)

\* lines 201-203: the scan for the image/tiff part; a part without a
\* Content-Type header raises KeyError
RECURSIVE ScanParts(_, _)
ScanParts(items, acc) ==
    IF items = <<>> THEN acc
    ELSE LET part == Head(items)
         IN  IF key_ct \notin DOMAIN part.headers
             THEN [acc EXCEPT !.raised = "KeyError"]
             ELSE IF part.headers[key_ct][2] = IMAGE_TIFF
             THEN ScanParts(Tail(items),
                            [acc EXCEPT !.bound = TRUE, !.coverage = part.content])
             ELSE ScanParts(Tail(items), acc)

\* lines 199-203: the reply parsed and scanned; parse_response's exception
\* passes through
ScanCoverage(multipart_data) ==
    IF multipart_data.raised # "none"
    THEN [raised |-> multipart_data.raised, bound |-> FALSE, coverage |-> <<>>]
    ELSE ScanParts(multipart_data.items,
                   [raised |-> "none", bound |-> FALSE, coverage |-> <<>>])

\* lines 208-215: gdal.Open of the /vsimem file, the GeoTransform, the
\* 1 x 1 read of band 1 and the float32 unpacked from it.  GDAL raises
\* RuntimeError for a file that is no raster and for a window outside it.
ReadBand(t, win) ==
    IF /\ 0 <= win[1] /\ win[1] < Raster(t).xsize
       /\ 0 <= win[2] /\ win[2] < Raster(t).ysize
    THEN [raised |-> "none", read |-> win, floatval |-> Band1(t, win[1], win[2])]
    ELSE [raised |-> "RuntimeError", read |-> win, floatval |-> 0]

OpenAndRead(x, y, coverage) ==
    IF Len(coverage) = 1 /\ coverage[1] \in TiffImages
    THEN ReadBand(coverage[1], ReadWindow(x, y, Raster(coverage[1]).gt))
    ELSE [raised |-> "RuntimeError", read |-> <<>>, floatval |-> 0]

\* a sampler that goes on with no data when no coverage was found
SampleCoverageUnbound(x, y, scan, uuid) ==
    IF scan.raised # "none"
    THEN [files |-> {}, raised |-> scan.raised, read |-> <<>>, floatval |-> 0]
    ELSE IF ~scan.bound
    THEN [files |-> {}, raised |-> "none", read |-> <<>>, floatval |-> 0]
    ELSE [files |-> {uuid}] @@ OpenAndRead(x, y, scan.coverage)

\* lines 204-215: an unbound coverage raises UnboundLocalError at line 207;
\* a bound one is written to /vsimem/<uuid>.tif by gdal.FileFromMemBuffer,
\* and no gdal.Unlink follows
SampleCoverage(x, y, scan, uuid) ==
    IF scan.raised # "none"
    THEN [files |-> {}, raised |-> scan.raised, read |-> <<>>, floatval |-> 0]
    ELSE IF ~scan.bound
    THEN [files |-> {}, raised |-> "UnboundLocalError", read |-> <<>>, floatval |-> 0]
    ELSE [files |-> {uuid}] @@ OpenAndRead(x, y, scan.coverage)

\* get_ahn_val(x, y, coverage_id, feedback), given the reply to its request
\* and the uuid it draws: its request, its locals, the /vsimem files it
\* leaves, and the value it returns or the exception it raises
GetAhnValFrom(x, y, coverage_id, multipart_data, scan, uuid) ==
    [called |-> TRUE, x |-> x, y |-> y,
     url |-> GetCoverageUrl(x, y, AhnGrid, coverage_id),
     parts |-> multipart_data.items,
     bound |-> scan.bound,
     coverage |-> scan.coverage]
      @@ SampleCoverage(x, y, scan, uuid)

GetAhnValParsed(x, y, coverage_id, multipart_data, uuid) ==
    GetAhnValFrom(x, y, coverage_id, multipart_data, ScanCoverage(multipart_data), uuid)

get_ahn_val(x, y, coverage_id, reply, uuid) ==
    GetAhnValParsed(x, y, coverage_id, parse_response(get_request_bytes(reply)), uuid)

----------------------------------------------------------------------------
(* Attributes, exceptions and results of processAlgorithm *)

\* QgsFeature(fields): every attribute NULL
NewFeature(fields) == [i \in 1..Len(fields) |-> Null]

\* QgsFeature.setAttribute(name, value): the first field of that name
SetAttribute(attrs, fields, name, value) ==
    LET hits == {i \in 1..Len(fields) : fields[i] = name}
    IN  IF hits = {} THEN attrs
        ELSE [attrs EXCEPT ![CHOOSE i \in hits : \A j \in hits : i <= j] = value]

\* a feature left as it was constructed: no attribute copied
CopyAttributesNone(new_ft, fields, field_names, attrs, i) == new_ft

\* the loop "for i in range(len(attrs))" that copies the input attributes
RECURSIVE CopyAttributes(_, _, _, _, _)
CopyAttributes(new_ft, fields, field_names, attrs, i) ==
    IF i > Len(attrs) THEN new_ft
    ELSE CopyAttributes(SetAttribute(new_ft, fields, field_names[i], attrs[i]),
                        fields, field_names, attrs, i + 1)

\* str(e) of the exceptions of the libraries, as pieces of text
ErrorMessage(type) ==
    CASE type = "TypeError" -> <<"sequence item 1: expected a bytes-like object, str found">>
      [] type = "KeyError" -> <<"b'content-type'">>
      [] type = "UnboundLocalError" -> <<"local variable 'coverage' referenced before assignment">>
      [] type = "UnicodeDecodeError" -> <<"'utf-8' codec can't decode byte 0xff">>
      [] type = "RuntimeError" -> <<"GDAL error">>
      [] type = "JSONDecodeError" -> <<"Expecting value: line 1 column 1 (char 0)">>
      [] type = "ConnectionError" -> <<"Max retries exceeded">>
      [] OTHER -> <<type>>

\* an exception raised below processAlgorithm, with its message and the
\* frames of its traceback
RaisedWith(type, message, frames) ==
    [type |-> type, message |-> message,
     traceback |-> <<"Traceback (most recent call last):", "processAlgorithm">>
                      \o frames \o <<type>>]

Raised(type, frames) == RaisedWith(type, ErrorMessage(type), frames)

\* return {} and return results
ReturnedEmpty ==
    [kind |-> "returned", results |-> <<>>, cause |-> NoException,
     message |-> NoMessage]
ReturnedResults ==
    [kind |-> "returned", results |-> <<"OUTPUT">>, cause |-> NoException,
     message |-> NoMessage]

\* PDOKWCSTool.processAlgorithm, lines 280-285: the except clause
WrapAhn(e) ==
    [kind |-> "QgsProcessingException", results |-> <<>>, cause |-> e,
     message |-> <<"Unexpected error occured while running ", "PDOKWCSTool", ": ">>
                    \o e.message \o <<" - traceback: ">> \o e.traceback]

\* PDOKGeocoder.processAlgorithm, lines 357-361: the except clause
WrapGeocoder(e) ==
    [kind |-> "QgsProcessingException", results |-> <<>>, cause |-> e,
     message |-> <<"Unexpected error occured while running PDOKGeocoder: ">>
                    \o e.message \o <<" - ">> \o e.traceback]

\* PDOKReverseGeocoder.processAlgorithm, lines 263-266: the except clause
WrapReverse(e) ==
    [kind |-> "QgsProcessingException", results |-> <<>>, cause |-> e,
     message |-> <<"Unexpected error occured while running PDOKReverseGeocoder: ">>
                    \o e.message]

----------------------------------------------------------------------------
(* PDOKWCSTool.processAlgorithm *)

AhnParams ==
    [in_crs : CRSs, out_crs : CRSs, coverage_id : {"ahn3_05m_dsm"},
     attribute_name : {"elevation"}]

\* lines 218-248: parameters, sink, the first cancellation check
AhnStart ==
    /\ tool = "PDOKWCSTool"
    /\ pc = "start"
    /\ IF canceled
       THEN outcome' = ReturnedEmpty /\ pc' = "returned"
       ELSE pc' = "rows" /\ UNCHANGED outcome
    /\ UNCHANGED <<tool, params, rows, idx, sink, canceled, requests, replies, vsimem,
                   log, sampled, parserVars, samplerVars, httpVars>>

\* lines 228-230: the fields of the output layer
AhnFields(attribute_name) == FieldNames \o <<attribute_name>>

\* attributes with the sample written as it is
AhnAttributesRaw(feature, attribute_name, ahn_val) ==
    SetAttribute(
        CopyAttributes(NewFeature(AhnFields(attribute_name)), AhnFields(attribute_name),
                       AhnFields(attribute_name), feature.attrs, 1),
        AhnFields(attribute_name), attribute_name, Num(ahn_val))

\* lines 257-267: the attributes of the new feature
AhnAttributes(feature, attribute_name, ahn_val) ==
    SetAttribute(
        CopyAttributes(NewFeature(AhnFields(attribute_name)), AhnFields(attribute_name),
                       AhnFields(attribute_name), feature.attrs, 1),
        AhnFields(attribute_name), attribute_name,
        \* lines 265-266: the no-data value becomes None
        IF ahn_val = NODATA THEN Null ELSE Num(ahn_val))

\* lines 268-273: the geometry of the new feature
AhnOutGeometry(in_crs, out_crs, geom) ==
    IF out_crs # in_crs THEN Transform(in_crs, out_crs, geom) ELSE geom

\* requests with the reply for a window kept for the next row
IssueCached(issued, row, u) ==
    IF issued # <<>> /\ issued[Len(issued)].url = u
    THEN issued
    ELSE Append(issued, [row |-> row, url |-> u])

\* line 199: get_request_bytes(url), called once in every call of
\* get_ahn_val
Issue(issued, row, u) == Append(issued, [row |-> row, url |-> u])

\* lines 249-276: one pass of the loop over the input features, with the
\* reply the network gives to its request
AhnRowSampled(feature, geom, r, reply) ==
    /\ requests' = Issue(requests, idx + 1, r.url)
    /\ replies' = Append(replies, [row |-> idx + 1, reply |-> reply])
    /\ log' = log \o get_reply_log(reply)
    /\ vsimem' = vsimem \cup r.files
    /\ sampled' = r
    /\ idx' = idx + 1
    /\ IF r.raised # "none"
       THEN /\ outcome' = WrapAhn(Raised(r.raised, <<"get_ahn_val">>))
            /\ pc' = "returned"
            /\ UNCHANGED sink
       ELSE /\ sink' = Append(sink,
                 [row |-> idx + 1,
                  attributes |-> AhnAttributes(feature, params.attribute_name, r.floatval),
                  geometry |-> AhnOutGeometry(params.in_crs, params.out_crs, geom)])
            /\ IF canceled
               THEN outcome' = ReturnedEmpty /\ pc' = "returned"
               ELSE UNCHANGED <<outcome, pc>>

\* the geometry of the feature as the layer holds it, never transformed
RdGeometryAsIs(feature, in_crs) == InCrs(feature.rd, in_crs)

\* lines 250-256: the geometry of the feature, transformed to EPSG:28992
\* when the layer has another CRS
RdGeometry(feature, in_crs) ==
    IF in_crs # "EPSG:28992"
    THEN Transform(in_crs, "EPSG:28992", InCrs(feature.rd, in_crs))
    ELSE InCrs(feature.rd, in_crs)

AhnRow ==
    /\ tool = "PDOKWCSTool"
    /\ pc = "rows"
    /\ idx < Len(rows)
    /\ \E reply \in AhnReplies :
         \E geom \in {RdGeometry(rows[idx + 1], params.in_crs)} :
           \E r \in {get_ahn_val(geom[1], geom[2], params.coverage_id, reply,
                                 Len(requests) + 1)} :
              AhnRowSampled(rows[idx + 1], geom, r, reply)
    /\ UNCHANGED <<tool, params, rows, canceled, parserVars, samplerVars, httpVars>>

----------------------------------------------------------------------------
(* The Locatieserver: documents and replies *)

\* an optional parameter: None, or a number
None == [some |-> FALSE, v |-> 0]
Some(n) == [some |-> TRUE, v |-> n]

\* QgsGeometry.fromWkt(wkt): the type of the geometry and, of its
\* coordinates, the centroid; text that is no WKT gives a null geometry
PointLL(rd) == [wkb |-> "Point", xy |-> InCrs(rd, "EPSG:4326")]
LineLL(rd) == [wkb |-> "MultiLineString", xy |-> InCrs(rd, "EPSG:4326")]
NullGeometry == [wkb |-> "Null", xy |-> <<0, 0>>]

\* the documents of the service
DocAdres ==
    [id |-> "adr-1", type |-> "adres", score |-> 5, afstand |-> 10,
     weergavenaam |-> "Dam 1, 1012JS Amsterdam",
     centroide_ll |-> PointLL(ExamplePoint), geometrie_ll |-> PointLL(ExamplePoint)]
DocWeg ==
    [id |-> "weg-1", type |-> "weg", score |-> 9, afstand |-> 25,
     weergavenaam |-> "Damrak, Amsterdam",
     centroide_ll |-> PointLL(<<1000001, 4999999>>),
     geometrie_ll |-> LineLL(<<1000003, 4999995>>)]

\* a document whose centroide_ll is text that QgsGeometry.fromWkt cannot read
DocNoWkt ==
    [id |-> "adr-2", type |-> "adres", score |-> 9, afstand |-> 10,
     weergavenaam |-> "Dam 2, 1012JS Amsterdam",
     centroide_ll |-> NullGeometry, geometrie_ll |-> NullGeometry]

\* json.loads of the body of a reply: a JSON object with its top-level
\* keys and, under "response", numFound and docs; or no JSON at all
JsonBody(keys, numFound, docs) ==
    [json |-> TRUE, keys |-> keys, numFound |-> numFound, docs |-> docs]
NotJson == [json |-> FALSE, keys |-> {}, numFound |-> 0, docs |-> <<>>]

\* what the network may answer to a free query: the service never looks
\* at how the body is used, so an error status or another Content-Type may
\* come with any body
FreeReplies ==
    { Ok("application/json", c) : c \in
        { JsonBody({"response"}, 0, <<>>),
          JsonBody({"response"}, 1, <<DocAdres>>),
          JsonBody({"response"}, 2, <<DocWeg, DocAdres>>),
          JsonBody({"response"}, 1, <<DocNoWkt>>),
          JsonBody({"error"}, 0, <<>>) } }
    \cup
    { Reply("ServerExceptionError", "InternalServerError", "text/html", NotJson),
      Reply("ServerExceptionError", "ServiceUnavailableError", "application/json",
            JsonBody({"response"}, 0, <<>>)),
      Ok("text/plain", JsonBody({"response"}, 1, <<DocAdres>>)),
      Reply("NetworkError", "HostNotFoundError", "", NotJson) }

\* what the network may answer to a lookup
LookupReplies ==
    { Ok("application/json", c) : c \in
        { JsonBody({"response"}, 1, <<DocWeg>>),
          JsonBody({"response"}, 0, <<>>),
          JsonBody({"response"}, 2, <<DocWeg, DocAdres>>) } }

\* what requests.get may give the reverse geocoder: a response with its
\* status code, Content-Type and body, or an exception
RequestsResponse(raised, status_code, content_type, c) ==
    [raised |-> raised, status_code |-> status_code,
     content_type |-> content_type, content |-> c]

RevgeoReplies ==
    { RequestsResponse("none", 200, "application/json", c) : c \in
        { JsonBody({"response"}, 0, <<>>),
          JsonBody({"response"}, 1, <<DocAdres>>),
          JsonBody({"response"}, 2, <<DocWeg, DocAdres>>),
          NotJson } }
    \cup
    { RequestsResponse("none", 500, "text/html", NotJson),
      RequestsResponse("none", 200, "text/html", JsonBody({"response"}, 1, <<DocAdres>>)),
      RequestsResponse("ConnectionError", 0, "", NotJson) }

----------------------------------------------------------------------------
(* locatieserver.py *)

\* urllib.parse.quote
url_encode_query_string(query_string) ==
    CASE query_string = "Dam 1" -> "Dam%201"
      [] query_string = "*,geometrie_ll" -> "%2A%2Cgeometrie_ll"
      [] OTHER -> query_string

\* get_request: what it logs for a reply
get_request_log(reply) ==
    (IF reply.err = "NoError" THEN <<"SERVER ERROR OCCURED">> ELSE <<>>)
      \o (IF reply.replyError = "NoError" THEN <<"SERVER ERROR OCCURED">> ELSE <<>>)

\* get_request: json.loads of the content of the reply
get_request(reply) ==
    IF reply.content.json
    THEN [raised |-> "none", frames |-> <<>>, content_obj |-> reply.content]
    ELSE [raised |-> "JSONDecodeError", frames |-> <<"get_request", "loads">>,
          content_obj |-> reply.content]

\* content_obj["response"]
Response(got, frame) ==
    IF got.raised # "none"
    THEN [raised |-> got.raised, frames |-> <<frame>> \o got.frames,
          message |-> ErrorMessage(got.raised), numFound |-> 0, docs |-> <<>>]
    ELSE IF "response" \notin got.content_obj.keys
    THEN [raised |-> "KeyError", frames |-> <<frame>>, message |-> <<"'response'">>,
          numFound |-> 0, docs |-> <<>>]
    ELSE [raised |-> "none", frames |-> <<>>, message |-> <<>>,
          numFound |-> got.content_obj.numFound, docs |-> got.content_obj.docs]

\* free_query(query, rows=10): its request, and its result given the reply
free_query_url(q) ==
    [endpoint |-> "free", q |-> url_encode_query_string(q), rows |-> 10]

free_query(reply) == Response(get_request(reply), "free_query")

\* lookup_object(object_id, proj): its request, and its result given the
\* reply
lookup_object_url(object_id) ==
    [endpoint |-> "lookup", id |-> url_encode_query_string(object_id),
     fl |-> url_encode_query_string("*,geometrie_ll")]

\* the first document whenever there is one: numFound < 1 in place of
\* numFound != 1
lookup_object_first(resp) ==
    IF resp.raised # "none" THEN resp
    ELSE IF resp.numFound < 1 THEN [resp EXCEPT !.docs = <<>>]
    ELSE [resp EXCEPT !.docs = <<resp.docs[1]>>]

lookup_object_found(resp) ==
    IF resp.raised # "none" THEN resp
    ELSE IF resp.numFound # 1 THEN [resp EXCEPT !.docs = <<>>]
    ELSE [resp EXCEPT !.docs = <<resp.docs[1]>>]

lookup_object(reply) == lookup_object_found(Response(get_request(reply), "lookup_object"))

----------------------------------------------------------------------------
(* PDOKGeocoder *)

GeocoderParams ==
    [out_crs : {"EPSG:4326", "EPSG:28992"}, result_type : {"adres", "weg"},
     score_treshold : {None, Some(5)}, add_xy_field : BOOLEAN,
     add_display_name : BOOLEAN, src_field : {"adres"},
     get_actual_geom : BOOLEAN]

\* get_geom, lines 236-246, given the reply to the lookup
get_geom_lookup(ls_id, found) ==
    IF found.raised # "none"
    THEN [lookups |-> <<lookup_object_url(ls_id)>>,
          raised |-> RaisedWith(found.raised, found.message, <<"get_geom">> \o found.frames),
          geom |-> NullGeometry]
    ELSE IF found.docs = <<>>
    THEN [lookups |-> <<lookup_object_url(ls_id)>>,
          raised |-> RaisedWith("QgsProcessingException",
                                <<"Failed to lookup object with id ", ls_id>>,
                                <<"get_geom">>),
          geom |-> NullGeometry]
    ELSE [lookups |-> <<lookup_object_url(ls_id)>>, raised |-> NoException,
          geom |-> found.docs[1].geometrie_ll]

\* get_geom(get_actual_geom, result_type, data, feedback)
get_geom(get_actual_geom, result_type, data, lookup_reply) ==
    IF ~get_actual_geom \/ result_type \in {"adres", "postcode"}
    THEN [lookups |-> <<>>, raised |-> NoException, geom |-> data[1].centroide_ll]
    ELSE get_geom_lookup(data[1].id, lookup_object(lookup_reply))

\* lines 265-274: the fields of the output layer
GeocoderFields(p) ==
    FieldNames \o (IF p.add_xy_field THEN <<"x", "y">> ELSE <<>>)
               \o (IF p.add_display_name THEN <<"weergavenaam">> ELSE <<>>)

\* lines 329-335: the geometry transformed to the target CRS
GeocoderOutGeometry(out_crs, geom) ==
    IF out_crs # "EPSG:4326"
    THEN [geom EXCEPT !.xy = Transform("EPSG:4326", out_crs, geom.xy)]
    ELSE geom

\* lines 321-346: the attributes of the new feature
GeocoderXY(p, fields, attrs, geom) ==
    IF p.add_xy_field
    THEN SetAttribute(SetAttribute(attrs, fields, "x", Num(geom.xy[1])),
                      fields, "y", Num(geom.xy[2]))
    ELSE attrs

GeocoderDisplayName(p, fields, attrs, display_name) ==
    IF p.add_display_name
    THEN SetAttribute(attrs, fields, "weergavenaam", Str(display_name))
    ELSE attrs

GeocoderAttributes(p, fields, feature, geom, display_name) ==
    GeocoderDisplayName(p, fields,
        GeocoderXY(p, fields,
                   CopyAttributes(NewFeature(fields), fields, FieldNames, feature.attrs, 1),
                   geom),
        display_name)

\* feature.attribute(src_field)
Attribute(feature, name) ==
    feature.attrs[CHOOSE i \in 1..Len(FieldNames) : FieldNames[i] = name]

----------------------------------------------------------------------------
(* PDOKGeocoder of pdok_services/processing_geocoder.py, the stand-alone
   script, with the LocatieServer class of pdok_services/locatieserver.py *)

\* the type names TypeFilterQuery holds as class attributes, as dir() lists
\* them
LsTypeNames == <<"adres", "gemeente", "postcode", "weg", "woonplaats">>

\* TypeFilterQuery(filterType): the attributes of the instance.  The map()
\* that is to set the other types to False is never iterated, so nothing
\* is set and every type keeps the True of the class.
TypeFilterQuery(filterType) ==
    [t \in {LsTypeNames[i] : i \in 1..Len(LsTypeNames)} |-> TRUE]

\* TypeFilterQuery.__str__: "type:(a OR b ...)", as the list of the types
\* it names
TypeFilterQueryStr(type_fq) ==
    SelectSeq(LsTypeNames, LAMBDA t : type_fq[t])

\* str(query) in the f-string of free_query
QueryText(value) == IF value = Null THEN "None" ELSE value.s

\* LocatieServer.free_query(query, type_fq, rows=5): its request;
\* url_encode_query_string returns its argument
LocatieServer_free_query_url(query_text, type_fq) ==
    [endpoint |-> "free", q |-> query_text, rows |-> 5,
     fq |-> TypeFilterQueryStr(type_fq)]

\* LocatieServer.lookup_object: its request
LocatieServer_lookup_object_url(object_id) ==
    [endpoint |-> "lookup", id |-> object_id, fl |-> "*,geometrie_ll"]

\* get_geom of the script, lines 245-260, given the result of the lookup:
\* line 254 reads the name response, which nothing defines
script_get_geom_lookup(ls_id, found) ==
    IF found.raised # "none"
    THEN [lookups |-> <<LocatieServer_lookup_object_url(ls_id)>>,
          raised |-> RaisedWith(found.raised, found.message, <<"get_geom">> \o found.frames),
          geom |-> NullGeometry]
    ELSE [lookups |-> <<LocatieServer_lookup_object_url(ls_id)>>,
          raised |-> RaisedWith("NameError", <<"name 'response' is not defined">>,
                                <<"get_geom">>),
          geom |-> NullGeometry]

\* get_geom(get_actual_geom, result_type, data, feedback) of the script
script_get_geom(get_actual_geom, result_type, data, lookup_reply) ==
    IF ~get_actual_geom \/ result_type \in {"adres", "postcode"}
    THEN [lookups |-> <<>>, raised |-> NoException, geom |-> data[1].centroide_ll]
    ELSE script_get_geom_lookup(data[1].id, lookup_object(lookup_reply))

----------------------------------------------------------------------------
(* processAlgorithm of the two PDOKGeocoder classes *)

GeocoderTools == {"PDOKGeocoder", "PDOKGeocoderScript"}

\* the request of free_query for a feature: line 300, and line 314 of the
\* script
FreeQueryRequest(feature) ==
    IF tool = "PDOKGeocoder"
    THEN free_query_url(Attribute(feature, params.src_field).s)
    ELSE LocatieServer_free_query_url(QueryText(Attribute(feature, params.src_field)),
                                      TypeFilterQuery(params.result_type))

\* self.get_geom: lines 315-317, and lines 329-331 of the script
GetGeom(data, lookup_reply) ==
    IF tool = "PDOKGeocoder"
    THEN get_geom(params.get_actual_geom, params.result_type, data, lookup_reply)
    ELSE script_get_geom(params.get_actual_geom, params.result_type, data, lookup_reply)

\* lines 248-287 (262-300 of the script): parameters, sink, the first
\* cancellation check
GeoStart ==
    /\ tool \in GeocoderTools
    /\ pc = "start"
    /\ IF canceled
       THEN outcome' = ReturnedEmpty /\ pc' = "returned"
       ELSE pc' = "rows" /\ UNCHANGED outcome
    /\ UNCHANGED <<tool, params, rows, idx, sink, canceled, requests, replies, vsimem,
                   log, sampled, parserVars, samplerVars, httpVars>>

\* lines 351-352: the cancellation check that ends a pass of the loop
RowEnd ==
    IF canceled
    THEN outcome' = ReturnedEmpty /\ pc' = "returned"
    ELSE UNCHANGED <<outcome, pc>>

\* lines 311-349, for a row whose query gave data and whose get_geom gave g
GeoRowGeom(feature, data, g, lookup_reply) ==
    /\ requests' = requests
          \o <<[row |-> idx + 1, url |-> FreeQueryRequest(feature)]>>
          \o [i \in 1..Len(g.lookups) |-> [row |-> idx + 1, url |-> g.lookups[i]]]
    /\ IF g.raised # NoException
       THEN /\ outcome' = WrapGeocoder(g.raised)
            /\ pc' = "returned"
            /\ UNCHANGED sink
       ELSE /\ IF g.geom.wkb # "Null"
               THEN sink' = Append(sink,
                        [row |-> idx + 1,
                         attributes |->
                            GeocoderAttributes(params, GeocoderFields(params), feature,
                                               GeocoderOutGeometry(params.out_crs, g.geom),
                                               data[1].weergavenaam),
                         geometry |-> GeocoderOutGeometry(params.out_crs, g.geom)])
               ELSE UNCHANGED sink
            /\ RowEnd

\* lines 300-352, given the result of free_query
GeoRowData(feature, found, free_reply, lookup_reply) ==
    /\ idx' = idx + 1
    /\ IF found.raised # "none"
       THEN /\ requests' = Append(requests,
                  [row |-> idx + 1,
                   url |-> FreeQueryRequest(feature)])
            /\ log' = log \o get_request_log(free_reply)
            /\ replies' = Append(replies, [row |-> idx + 1, reply |-> free_reply])
            /\ outcome' = WrapGeocoder(RaisedWith(found.raised, found.message, found.frames))
            /\ pc' = "returned"
            /\ UNCHANGED sink
       ELSE IF /\ Len(found.docs) > 0
               /\ ~(/\ params.score_treshold # None
                    /\ found.docs[1].score <= params.score_treshold.v)
       THEN \E g \in {GetGeom(found.docs, lookup_reply)} :
               /\ replies' = replies \o <<[row |-> idx + 1, reply |-> free_reply]>>
                     \o (IF g.lookups # <<>>
                         THEN <<[row |-> idx + 1, reply |-> lookup_reply]>>
                         ELSE <<>>)
               /\ log' = log \o get_request_log(free_reply)
                             \o (IF g.lookups # <<>> THEN get_request_log(lookup_reply)
                                 ELSE <<>>)
               /\ GeoRowGeom(feature, found.docs, g, lookup_reply)
       ELSE /\ requests' = Append(requests,
                  [row |-> idx + 1,
                   url |-> FreeQueryRequest(feature)])
            /\ log' = log \o get_request_log(free_reply)
            /\ replies' = Append(replies, [row |-> idx + 1, reply |-> free_reply])
            /\ UNCHANGED sink
            /\ RowEnd

\* lines 288-352: one pass of the loop over the input features, with the
\* replies the network gives to its requests
GeoRow ==
    /\ tool = "PDOKGeocoder"
    /\ pc = "rows"
    /\ idx < Len(rows)
    /\ IF Attribute(rows[idx + 1], params.src_field) = Null
       THEN \* lines 292-293: continue
            /\ idx' = idx + 1
            /\ UNCHANGED <<sink, outcome, pc, requests, replies, log>>
       ELSE \E free_reply \in FreeReplies, lookup_reply \in LookupReplies :
               \E found \in {free_query(free_reply)} :
                  GeoRowData(rows[idx + 1], found, free_reply, lookup_reply)
    /\ UNCHANGED <<tool, params, rows, canceled, vsimem, sampled, parserVars,
                   samplerVars, httpVars>>

------------------------------------------------------------------------\* lines 302-366 of the script: one pass of the loop; the source attribute
\* is not tested for None
ScriptRow ==
    /\ tool = "PDOKGeocoderScript"
    /\ pc = "rows"
    /\ idx < Len(rows)
    /\ \E free_reply \in FreeReplies, lookup_reply \in LookupReplies :
          \E found \in {free_query(free_reply)} :
             GeoRowData(rows[idx + 1], found, free_reply, lookup_reply)
    /\ UNCHANGED <<tool, params, rows, canceled, vsimem, sampled, parserVars,
                   samplerVars, httpVars>>

----
(* PDOKReverseGeocoder *)

ReverseParams ==
    [in_crs : CRSs, distance_treshold : {None, Some(10)},
     target_att_name : {"", "straat"}, result_type : {"adres"}]

\* lines 181-182: the name of the target attribute
TargetAttName(p) ==
    IF p.target_att_name = "" THEN p.result_type ELSE p.target_att_name

\* lines 179-188: the fields of the output layer
\* (QgsFields.append rejects a field whose name the fields hold already)
ReverseFields(p) ==
    IF \E i \in 1..Len(FieldNames) : FieldNames[i] = TargetAttName(p)
    THEN FieldNames
    ELSE FieldNames \o <<TargetAttName(p)>>

\* lines 212-221: the request for a point
RevgeoUrl(feature, p) ==
    LET geom == IF p.in_crs # "EPSG:4326"
                THEN Transform(p.in_crs, "EPSG:4326", InCrs(feature.rd, p.in_crs))
                ELSE InCrs(feature.rd, p.in_crs)
    IN  [endpoint |-> "revgeo", lon |-> geom[1], type |-> p.result_type,
         lat |-> geom[2]]

\* lines 223-233: the response, its status code and its JSON
RevgeoData(reply) ==
    IF reply.raised # "none"
    THEN [raised |-> RaisedWith(reply.raised, ErrorMessage(reply.raised), <<"get">>),
          docs |-> <<>>]
    ELSE IF reply.status_code # 200
    THEN [raised |-> RaisedWith("QgsProcessingException",
                        <<"Unexpected response from HTTP GET, response code: ", "500">>,
                        <<>>),
          docs |-> <<>>]
    ELSE IF ~reply.content.json
    THEN [raised |-> Raised("JSONDecodeError", <<"json">>), docs |-> <<>>]
    ELSE IF "response" \notin reply.content.keys
    THEN [raised |-> RaisedWith("KeyError", <<"'response'">>, <<>>), docs |-> <<>>]
    ELSE [raised |-> NoException, docs |-> reply.content.docs]

\* a result at the threshold excluded as well: >= in place of >
RevgeoResultAtLeast(p, docs) ==
    IF Len(docs) > 0
    THEN IF p.distance_treshold # None /\ docs[1].afstand >= p.distance_treshold.v
         THEN ""
         ELSE docs[1].weergavenaam
    ELSE ""

\* the last of the results in place of the first
RevgeoResultLast(p, docs) ==
    IF Len(docs) > 0
    THEN IF /\ p.distance_treshold # None
            /\ docs[Len(docs)].afstand > p.distance_treshold.v
         THEN ""
         ELSE docs[Len(docs)].weergavenaam
    ELSE ""

\* lines 234-243: the value of the target attribute
RevgeoResult(p, docs) ==
    IF Len(docs) > 0
    THEN IF p.distance_treshold # None /\ docs[1].afstand > p.distance_treshold.v
         THEN ""
         ELSE docs[1].weergavenaam
    ELSE ""

\* lines 245-253: the attributes of the new feature
ReverseAttributes(p, feature, res) ==
    SetAttribute(
        CopyAttributes(NewFeature(ReverseFields(p)), ReverseFields(p), FieldNames,
                       feature.attrs, 1),
        ReverseFields(p), TargetAttName(p), Str(res))

\* lines 169-208: parameters, sink, the first cancellation check
RevStart ==
    /\ tool = "PDOKReverseGeocoder"
    /\ pc = "start"
    /\ IF canceled
       THEN outcome' = ReturnedEmpty /\ pc' = "returned"
       ELSE pc' = "rows" /\ UNCHANGED outcome
    /\ UNCHANGED <<tool, params, rows, idx, sink, canceled, requests, replies, vsimem,
                   log, sampled, parserVars, samplerVars, httpVars>>

RevRowData(feature, data, reply) ==
    /\ requests' = Append(requests, [row |-> idx + 1, url |-> RevgeoUrl(feature, params)])
    /\ replies' = Append(replies, [row |-> idx + 1, reply |-> reply])
    /\ idx' = idx + 1
    /\ IF data.raised # NoException
       THEN /\ outcome' = WrapReverse(data.raised)
            /\ pc' = "returned"
            /\ UNCHANGED sink
       ELSE /\ sink' = Append(sink,
                 [row |-> idx + 1,
                  attributes |-> ReverseAttributes(params, feature,
                                                   RevgeoResult(params, data.docs)),
                  \* line 254: point.geometry()
                  geometry |-> InCrs(feature.rd, params.in_crs)])
            /\ RowEnd

\* lines 211-258: one pass of the loop over the input points, with the
\* response requests.get gives
RevRow ==
    /\ tool = "PDOKReverseGeocoder"
    /\ pc = "rows"
    /\ idx < Len(rows)
    /\ \E reply \in RevgeoReplies :
         \E data \in {RevgeoData(reply)} :
            RevRowData(rows[idx + 1], data, reply)
    /\ UNCHANGED <<tool, params, rows, canceled, vsimem, log, sampled, parserVars,
                   samplerVars, httpVars>>

----------------------------------------------------------------------------
(* A run of a tool *)

\* the last lines of each processAlgorithm ("results[self.OUTPUT] =
\* dest_id; return results"): the loop is over
Finish ==
    /\ pc = "rows"
    /\ idx = Len(rows)
    /\ outcome' = ReturnedResults
    /\ pc' = "returned"
    /\ UNCHANGED <<tool, params, rows, idx, sink, canceled, requests, replies, vsimem,
                   log, sampled, parserVars, samplerVars, httpVars>>

\* the user cancels the algorithm: feedback.isCanceled() becomes true
Cancel ==
    /\ pc \in {"start", "rows"}
    /\ ~canceled
    /\ canceled' = TRUE
    /\ UNCHANGED <<tool, pc, params, rows, idx, sink, outcome, requests, replies, vsimem,
                   log, sampled, parserVars, samplerVars, httpVars>>

Tools == {"PDOKWCSTool", "PDOKGeocoder", "PDOKGeocoderScript", "PDOKReverseGeocoder"}

ParamsOf(t) ==
    CASE t = "PDOKWCSTool" -> AhnParams
      [] t \in GeocoderTools -> GeocoderParams
      [] OTHER -> ReverseParams

Init ==
    /\ ParserIdle
    /\ SamplerIdle
    /\ HttpIdle
    /\ tool \in Tools
    /\ pc = "start"
    /\ params \in ParamsOf(tool)
    /\ rows \in FeatureLists
    /\ idx = 0
    /\ sink = <<>>
    /\ outcome = Running
    /\ canceled = FALSE
    /\ requests = <<>>
    /\ vsimem = {}
    /\ log = <<>>
    /\ sampled = NoSample
    /\ replies = <<>>

Next ==
    \/ AhnStart \/ AhnRow
    \/ GeoStart \/ GeoRow \/ ScriptRow
    \/ RevStart \/ RevRow
    \/ Finish \/ Cancel

Spec == Init /\ [][Next]_vars

----------------------------------------------------------------------------
(* The AHN3 tool: coverage extraction, sentinel, CRS, rasters, requests *)

AhnRun == tool = "PDOKWCSTool"

\* a parsed part whose Content-Type equals image/tiff, the header name
\* matched without regard to case
IsTiffPart(part) ==
    /\ key_ct \in DOMAIN part.headers
    /\ part.headers[key_ct][2] = IMAGE_TIFF

\* the response was parsed: parse_response returned its list of parts
Parsed(s) == s.called /\ s.raised \notin {"TypeError", "UnicodeDecodeError"}

TiffParts(s) == {i \in 1..Len(s.parts) : IsTiffPart(s.parts[i])}

\* C2: whenever the parsed parts hold at least one part whose Content-Type
\* equals image/tiff, whatever the headers of the other parts,
\* get_ahn_val uses the content of the last such part as the coverage.
C2_LastMatchWins ==
    (AhnRun /\ Parsed(sampled) /\ TiffParts(sampled) # {}) =>
        /\ sampled.bound
        /\ sampled.coverage =
              sampled.parts[CHOOSE i \in TiffParts(sampled) :
                               \A j \in TiffParts(sampled) : j <= i].content

\* two image/tiff parts, the second under a lower-case header name: the
\* second is the coverage
C2_Witness ==
    /\ AhnRun /\ Parsed(sampled)
    /\ Cardinality(TiffParts(sampled)) = 2
    /\ sampled.bound
    /\ sampled.coverage = <<"T2">>
    /\ sampled.parts[1].content = <<"T1">>

\* C3: when the parsed response holds no part whose Content-Type is
\* image/tiff (an empty list of parts included), no coverage is extracted,
\* the run ends with a QgsProcessingException, no feature is written for
\* the row and no later row is processed.
C3_MissingCoverage ==
    (AhnRun /\ Parsed(sampled) /\ TiffParts(sampled) = {}) =>
        /\ ~sampled.bound
        /\ sampled.files = {}
        /\ outcome.kind = "QgsProcessingException"
        /\ outcome.results = <<>>
        /\ pc = "returned"
        /\ \A i \in 1..Len(sink) : sink[i].row # idx
        /\ Len(requests) = idx
        /\ ~ENABLED Next

\* the first of two rows gets a reply with an XML part only
C3_Witness ==
    /\ AhnRun /\ Parsed(sampled)
    /\ Len(sampled.parts) = 1 /\ TiffParts(sampled) = {}
    /\ Len(rows) = 2 /\ idx = 1
    /\ sink = <<>>
    /\ outcome.kind = "QgsProcessingException"
    /\ outcome.cause.type = "UnboundLocalError"

\* the sample of band 1 that the last call of get_ahn_val read
RawSample(s) == Band1(s.coverage[1], s.read[1], s.read[2])

\* the elevation attribute of an output feature
Elevation(f) == f.attributes[Len(FieldNames) + 1]

\* C4: get_ahn_val returns the sample as it is in the raster; the tool
\* writes NULL to the elevation attribute when the sample is exactly
\* 3.4028234663852886e38 and the sample itself otherwise.
C4_SentinelTranslation ==
    (AhnRun /\ sampled.called /\ sampled.raised = "none") =>
        /\ sampled.floatval = RawSample(sampled)
        /\ sink # <<>>
        /\ sink[Len(sink)].row = idx
        /\ Elevation(sink[Len(sink)]) =
              IF sampled.floatval = NODATA THEN Null ELSE Num(sampled.floatval)
        /\ Elevation(sink[Len(sink)]) # Num(NODATA)

\* a run that wrote a sample as it is and then the no-data value as NULL
C4_Witness ==
    /\ AhnRun /\ sampled.called /\ sampled.raised = "none"
    /\ Len(sink) = 2
    /\ Elevation(sink[1]).t = "num" /\ Elevation(sink[1]).n # NODATA
    /\ sampled.floatval = NODATA
    /\ Elevation(sink[2]) = Null

\* C7: every feature the AHN3 tool adds to the output layer has its
\* geometry in the Target CRS, the CRS the layer is created with,
\* whatever the CRS of the input layer.
C7_OutputInTargetCrs ==
    AhnRun =>
        \A i \in 1..Len(sink) :
            sink[i].geometry = InCrs(rows[sink[i].row].rd, params.out_crs)

\* C8: once get_ahn_val has returned, no /vsimem raster file is alive.
C8_RasterFreed ==
    AhnRun => vsimem = {}

\* C9: the AHN3 tool has issued exactly one GetCoverage request for every
\* row it has taken, in the order of the rows, each for the window of that
\* row's point; a run that completes has issued one per input feature.
C9_OneRequestPerRow ==
    AhnRun =>
        /\ Len(requests) = idx
        /\ \A i \in 1..Len(requests) :
              /\ requests[i].row = i
              /\ requests[i].url =
                    GetCoverageUrl(rows[i].rd[1], rows[i].rd[2], AhnGrid,
                                   params.coverage_id)
        /\ (outcome = ReturnedResults) => Len(requests) = Len(rows)
        /\ (outcome.kind = "QgsProcessingException") => requests[idx].row = idx

\* C9, the steps: a step issues at most one request, and issues one exactly
\* when it takes a row.
C9_OneRequestPerStep ==
    [][AhnRun => /\ Len(requests') - Len(requests) = idx' - idx
                 /\ idx' - idx \in {0, 1}
                 /\ SubSeq(requests', 1, Len(requests)) = requests]_vars

\* two points of one cell: each row has a request of its own, for the
\* same window
C9_Witness ==
    /\ AhnRun
    /\ outcome = ReturnedResults
    /\ Len(rows) = 2 /\ rows[1] = rows[2]
    /\ Len(requests) = 2
    /\ requests[1].url = requests[2].url
    /\ Len(sink) = 2

----------------------------------------------------------------------------
(* The except clauses of the three tools *)

\* C10: a QgsProcessingException that processAlgorithm raises for an
\* exception carries, in its message, the message of that exception and
\* its stack trace; this in each of the three tools.
C10_WrapCarriesMessageAndTrace ==
    (outcome.kind = "QgsProcessingException") =>
        /\ Contains(outcome.message, outcome.cause.message)
        /\ Contains(outcome.message, outcome.cause.traceback)

\* the AHN3 tool and the geocoder do so
C10_Witness ==
    /\ tool = "PDOKGeocoder"
    /\ outcome.kind = "QgsProcessingException"
    /\ outcome.cause.type = "QgsProcessingException"
    /\ Contains(outcome.message, outcome.cause.message)
    /\ Contains(outcome.message, outcome.cause.traceback)

----------------------------------------------------------------------------
(* Failed requests *)

\* the Content-Type a tool's service answers with when all is well
ExpectedType == IF tool = "PDOKWCSTool" THEN "multipart/related" ELSE "application/json"

\* the request failed: a transport failure, an HTTP status other than 200
\* (for QgsBlockingNetworkRequest an error of the reply), or an unexpected
\* Content-Type
Failed(reply) ==
    IF tool = "PDOKReverseGeocoder"
    THEN \/ reply.raised # "none"
         \/ reply.status_code # 200
         \/ reply.content_type # ExpectedType
    ELSE \/ reply.err # "NoError"
         \/ reply.replyError # "NoError"
         \/ reply.content_type # ExpectedType

\* C11: in every tool, when the request of a row has failed, the run has
\* ended with a QgsProcessingException, no feature is written for that row
\* and no later row is taken.
C11_FailedRequestAborts ==
    \A i \in 1..Len(replies) :
        Failed(replies[i].reply) =>
            /\ outcome.kind = "QgsProcessingException"
            /\ pc = "returned"
            /\ idx = replies[i].row
            /\ \A j \in 1..Len(sink) : sink[j].row # replies[i].row

\* the AHN3 tool does so for a reply that is an XML document with an error
\* status
C11_Witness ==
    /\ tool = "PDOKWCSTool"
    /\ Len(rows) = 2 /\ idx = 1
    /\ Len(replies) = 1
    /\ replies[1].reply.replyError = "InternalServerError"
    /\ outcome.kind = "QgsProcessingException"
    /\ sink = <<>>

----------------------------------------------------------------------------
(* Cancellation *)

IsPrefix(s, t) == Len(s) <= Len(t) /\ SubSeq(t, 1, Len(s)) = s

\* C12: the cancellation flag is checked before the first row and after
\* every row: a run that starts with the flag set returns the empty result
\* at once, the row that is taken with the flag set is the last and the run
\* returns after it without an OUTPUT entry, and a step never takes a
\* feature out of the sink.
C12_CancellationObserved ==
    [][/\ (canceled /\ pc = "start") =>
             /\ pc' = "returned" /\ outcome' = ReturnedEmpty
             /\ requests' = requests /\ sink' = sink
       /\ (canceled /\ idx' = idx + 1) =>
             /\ pc' = "returned"
             /\ outcome'.results = <<>>
       /\ IsPrefix(sink, sink')]_vars

\* the AHN3 tool, canceled during its second row of two: the feature of
\* the first row is in the sink and the result is empty
C12_Witness ==
    /\ tool = "PDOKWCSTool"
    /\ canceled
    /\ Len(rows) = 2 /\ idx = 2
    /\ outcome = ReturnedEmpty
    /\ Len(sink) = 2

----------------------------------------------------------------------------
(* Boundary match *)

NoLineBreak(token) == \A i \in 1..Len(token) : token[i] \notin {"CR", "LF"}

\* C13: for a buffer that begins with CRLF, "--" and a token without line
\* breaks, then CRLF, get_boundary returns "--" and the token, whatever
\* parts follow; for a buffer beginning with \r\n--abc123\r\n it returns
\* --abc123.
C13_BoundaryMatch ==
    /\ (ppc # "input" /\ NoLineBreak(boundary)) =>
           /\ OccursAt(content, CRLF \o DASHES \o boundary \o CRLF, 0)
           /\ get_boundary(content) = [found |-> TRUE, val |-> DASHES \o boundary]
    /\ get_boundary(CRLF \o DASHES \o ABC123 \o CRLF).val = DASHES \o ABC123

\* the boundary abc123 in front of two parts
C13_Witness ==
    /\ ppc = "parsed"
    /\ boundary = ABC123
    /\ Len(inparts) = 2
    /\ Len(content) > Len(CRLF \o DASHES \o ABC123 \o CRLF)
    /\ get_boundary(content).val = DASHES \o ABC123

----------------------------------------------------------------------------
(* Geometry selection *)

\* the replies to the requests of row r, in the order of the requests
RowReplies(r) == SelectSeq(replies, LAMBDA e : e.row = r)

\* the features written for row r
RowFeatures(r) == SelectSeq(sink, LAMBDA f : f.row = r)

\* the documents the free query of row r gave, <<>> when it failed
RowDocs(r) ==
    IF free_query(RowReplies(r)[1].reply).raised # "none" THEN <<>>
    ELSE free_query(RowReplies(r)[1].reply).docs

\* row r of a geocoder run came as far as the call of get_geom
GeomAsked(r) ==
    /\ tool \in GeocoderTools
    /\ RowReplies(r) # <<>>
    /\ RowDocs(r) # <<>>
    /\ ~(params.score_treshold # None /\ RowDocs(r)[1].score <= params.score_treshold.v)

UsesCentroid == ~params.get_actual_geom \/ params.result_type \in {"adres", "postcode"}

\* C14: in both geocoders a row that comes to get_geom gets the geometry of
\* the first result's centroide_ll, without a lookup, when the actual
\* geometry is not asked for or the result type is adres or postcode;
\* otherwise the first result's id is looked up and the row gets the
\* geometry of geometrie_ll of the document the lookup found.
C14_GeometrySelection ==
    \A r \in 1..idx :
        GeomAsked(r) =>
            IF UsesCentroid
            THEN /\ Len(RowReplies(r)) = 1
                 /\ Len(RowFeatures(r)) = 1
                 /\ RowFeatures(r)[1].geometry =
                        GeocoderOutGeometry(params.out_crs, RowDocs(r)[1].centroide_ll)
            ELSE /\ Len(RowReplies(r)) = 2
                 /\ \E k \in 1..Len(requests) :
                        /\ requests[k].row = r
                        /\ requests[k].url.endpoint = "lookup"
                        /\ requests[k].url.id = url_encode_query_string(RowDocs(r)[1].id)
                 /\ lookup_object(RowReplies(r)[2].reply).docs # <<>> =>
                        /\ Len(RowFeatures(r)) = 1
                        /\ RowFeatures(r)[1].geometry =
                               GeocoderOutGeometry(params.out_crs,
                                   lookup_object(RowReplies(r)[2].reply).docs[1].geometrie_ll)

\* the geocoder of the provider writes the line of a road it has looked up
C14_Witness ==
    /\ tool = "PDOKGeocoder"
    /\ ~UsesCentroid
    /\ idx = 1 /\ GeomAsked(1)
    /\ Len(sink) = 1
    /\ sink[1].geometry = GeocoderOutGeometry(params.out_crs, DocWeg.geometrie_ll)
    /\ sink[1].geometry # GeocoderOutGeometry(params.out_crs, RowDocs(1)[1].centroide_ll)

----------------------------------------------------------------------------
(* Lookup not found *)

\* row r of a geocoder run has looked up the first result of its query
LookedUp(r) == GeomAsked(r) /\ ~UsesCentroid /\ Len(RowReplies(r)) = 2

\* C15: lookup_object gives the one document when the service reports
\* numFound = 1 and None (no document) when it reports zero or more than
\* one; a geocoder row whose lookup gives None ends the run with a
\* QgsProcessingException and writes no feature.
C15_LookupNotFound ==
    /\ \A reply \in LookupReplies :
          /\ lookup_object(reply).raised = "none"
          /\ lookup_object(reply).docs =
                IF reply.content.numFound = 1 THEN <<reply.content.docs[1]>> ELSE <<>>
    /\ \A r \in 1..idx :
          (LookedUp(r) /\ RowReplies(r)[2].reply.content.numFound # 1) =>
              /\ outcome.kind = "QgsProcessingException"
              /\ pc = "returned"
              /\ idx = r
              /\ RowFeatures(r) = <<>>
              /\ tool = "PDOKGeocoder" =>
                    Contains(outcome.message,
                             <<"Failed to lookup object with id ", RowDocs(r)[1].id>>)

\* a lookup that reports two documents ends the run of the provider's
\* geocoder in its second row; the feature of the first row stays
C15_Witness ==
    /\ tool = "PDOKGeocoder"
    /\ idx = 2 /\ LookedUp(2)
    /\ RowReplies(2)[2].reply.content.numFound = 2
    /\ outcome.kind = "QgsProcessingException"
    /\ Len(sink) = 1 /\ sink[1].row = 1

----------------------------------------------------------------------------
(* Score threshold *)

\* the free query of row r of a geocoder run gave a first result, and the
\* run did not fail in that row
RowAnswered(r) ==
    /\ tool \in GeocoderTools
    /\ RowReplies(r) # <<>>
    /\ RowDocs(r) # <<>>
    /\ ~(outcome.kind = "QgsProcessingException" /\ idx = r)

\* C16: a geocoder row whose query gave a first result writes no feature
\* exactly when a score threshold is set and the score of that result is
\* lower than the threshold; with no threshold set the feature is written.
C16_ScoreThreshold ==
    \A r \in 1..idx :
        RowAnswered(r) =>
            (RowFeatures(r) = <<>>
                <=> /\ params.score_treshold # None
                    /\ RowDocs(r)[1].score < params.score_treshold.v)

\* with the threshold 5 a first result of score 9 is written
C16_Witness ==
    /\ tool = "PDOKGeocoder"
    /\ params.score_treshold = Some(5)
    /\ idx = 1 /\ RowAnswered(1)
    /\ RowDocs(1)[1].score = 9
    /\ Len(RowFeatures(1)) = 1

----------------------------------------------------------------------------
(* Distance threshold *)

\* the target attribute of a feature the reverse geocoder has written
TargetAttribute(f) ==
    f.attributes[CHOOSE i \in 1..Len(ReverseFields(params)) :
                     ReverseFields(params)[i] = TargetAttName(params)]

\* the request of row r of a reverse geocoder run gave a response the tool
\* accepted
RevAnswered(r) ==
    /\ tool = "PDOKReverseGeocoder"
    /\ RowReplies(r) # <<>>
    /\ RevgeoData(RowReplies(r)[1].reply).raised = NoException

RevDocs(r) == RevgeoData(RowReplies(r)[1].reply).docs

\* C17: a reverse geocoder row whose request gave a first result leaves
\* the target attribute empty exactly when a distance threshold is set and
\* the distance (afstand) of that result is greater than the threshold.
C17_DistanceThreshold ==
    \A r \in 1..idx :
        (RevAnswered(r) /\ RevDocs(r) # <<>>) =>
            /\ Len(RowFeatures(r)) = 1
            /\ TargetAttribute(RowFeatures(r)[1]) = Str("")
                  <=> /\ params.distance_treshold # None
                      /\ RevDocs(r)[1].afstand > params.distance_treshold.v
            /\ TargetAttribute(RowFeatures(r)[1]) # Str("")
                  => TargetAttribute(RowFeatures(r)[1]) = Str(RevDocs(r)[1].weergavenaam)

\* with the threshold 10 a first result at the distance 10 is kept
C17_Witness ==
    /\ idx = 1 /\ RevAnswered(1) /\ RevDocs(1) # <<>>
    /\ params.distance_treshold = Some(10)
    /\ RevDocs(1)[1].afstand = 10
    /\ TargetAttribute(sink[1]) = Str(RevDocs(1)[1].weergavenaam)

----------------------------------------------------------------------------
(* Geocoding request parameters *)

\* C18: every free-query request of a geocoder run carries the query text
\* q (the source attribute of its row), the row limit rows and the type
\* filter fq, and the filter names the result type of the run and no
\* other.
C18_FreeQueryParameters ==
    \A k \in 1..Len(requests) :
        (tool \in GeocoderTools /\ requests[k].url.endpoint = "free") =>
            /\ {"q", "rows", "fq"} \subseteq DOMAIN requests[k].url
            /\ requests[k].url.q \in
                  { QueryText(Attribute(rows[requests[k].row], params.src_field)),
                    url_encode_query_string(
                        QueryText(Attribute(rows[requests[k].row], params.src_field))) }
            /\ requests[k].url.rows > 0
            /\ requests[k].url.fq = <<params.result_type>>

\* the request of the provider's geocoder for the address "Dam 1" carries
\* the encoded text and the row limit
C18_Witness ==
    /\ tool = "PDOKGeocoder"
    /\ Len(requests) >= 1
    /\ requests[1].url.endpoint = "free"
    /\ requests[1].url.q = "Dam%201"
    /\ requests[1].url.rows = 10

----------------------------------------------------------------------------
(* The reverse geocoder is one-to-one *)

\* what the target attribute of row r is to hold
ExpectedName(r) ==
    IF RevDocs(r) = <<>> THEN ""
    ELSE IF /\ params.distance_treshold # None
            /\ RevDocs(r)[1].afstand > params.distance_treshold.v
    THEN ""
    ELSE RevDocs(r)[1].weergavenaam

\* C19: a reverse geocoder run that returns its OUTPUT has written one
\* feature per input point, in input order, after one request per point;
\* the target attribute of each is the weergavenaam of the first result of
\* the point's request, or the empty string when there is no result or the
\* first result lies beyond the distance threshold.
C19_ReverseOneToOne ==
    (tool = "PDOKReverseGeocoder" /\ outcome = ReturnedResults) =>
        /\ Len(sink) = Len(rows)
        /\ \A i \in 1..Len(rows) :
              /\ sink[i].row = i
              /\ Len(RowReplies(i)) = 1
              /\ TargetAttribute(sink[i]) = Str(ExpectedName(i))

\* a run over two points: nothing found for the first, an address for the
\* second
C19_Witness ==
    /\ tool = "PDOKReverseGeocoder"
    /\ outcome = ReturnedResults
    /\ Len(rows) = 2 /\ Len(sink) = 2
    /\ RevDocs(1) = <<>>
    /\ TargetAttribute(sink[1]) = Str("")
    /\ TargetAttribute(sink[2]) = Str(DocAdres.weergavenaam)

----------------------------------------------------------------------------
(* http_client.get_request_json *)

\* Headers and bodies are sequences of pieces of bytes: pieces of ASCII
\* text, and the single bytes C3, A9, E9 and 89, which are not ASCII.
HighBytes == {"C3", "A9", "E9", "89"}

\* "application/json", the argument of startswith
APPLICATION_JSON == <<"application/json">>

\* values of the Content-Type header; <<>> is the empty QByteArray that
\* rawHeader gives for a missing header
ContentTypes ==
    { <<>>,
      APPLICATION_JSON,
      <<"application/json", ";", "charset=", "utf-8">>,
      <<"application/json", ";", " ", "charset=", "utf-8", ";", " ", "v=1">>,
      <<"application/json", ";", "charset=", "iso-8859-1">>,
      <<"application/json", ";">>,
      <<"application/json", "l">>,
      <<"Application/JSON">>,
      <<"text/html">>,
      <<"text/html", ";", " ", "charset=", "utf-8">>,
      <<"text/html", ";", "charset=", "iso-8859-1">>,
      <<"multipart/related", ";", " ", "boundary=a">>,
      <<"image/png">>,
      <<"text/html", ";", "E9">> }

\* bodies: {} ; the JSON string "e-acute" in UTF-8 and in Latin-1; an HTML
\* page; nothing; the first bytes of a PNG image
Bodies ==
    { <<"{}">>,
      <<"QUOTE", "C3", "A9", "QUOTE">>,
      <<"QUOTE", "E9", "QUOTE">>,
      <<"<html>">>,
      <<>>,
      <<"89", "PNG">> }

\* the replies get_reply may return
HttpReplies ==
    { Reply(e[1], e[2], ct, b) :
        e \in { <<"NoError", "NoError">>,
                <<"ServerExceptionError", "InternalServerError">>,
                <<"NetworkError", "ConnectionRefusedError">> },
        ct \in ContentTypes, b \in Bodies }

\* bytes.decode("ascii")
AsciiDecodes(b) == \A i \in 1..Len(b) : b[i] \notin HighBytes

\* str.replace(old, "") for an old that is one piece
Remove(str, old) == SelectSeq(str, LAMBDA c : c # old)

\* lines 40-42: the name of the encoding
Encoding(content_type) ==
    IF Len(Split(content_type, <<";">>)) > 1
    THEN Remove(Split(content_type, <<";">>)[2], "charset=")
    ELSE <<"utf-8">>

\* the codec Python finds for a name (names are normalised before the
\* lookup), "unknown" for a LookupError
Codec(encoding) ==
    CASE encoding \in {<<"utf-8">>, <<" ", "utf-8">>} -> "utf-8"
      [] encoding = <<"iso-8859-1">> -> "latin-1"
      [] OTHER -> "unknown"

\* UTF-8: C3 A9 is e-acute, every other high byte is invalid where it
\* stands
RECURSIVE Utf8Valid(_)
Utf8Valid(b) ==
    IF b = <<>> THEN TRUE
    ELSE IF Len(b) >= 2 /\ b[1] = "C3" /\ b[2] = "A9" THEN Utf8Valid(SubSeq(b, 3, Len(b)))
    ELSE IF b[1] \in HighBytes THEN FALSE
    ELSE Utf8Valid(Tail(b))

RECURSIVE Utf8Text(_)
Utf8Text(b) ==
    IF b = <<>> THEN <<>>
    ELSE IF Len(b) >= 2 /\ b[1] = "C3" /\ b[2] = "A9"
    THEN <<"e-acute">> \o Utf8Text(SubSeq(b, 3, Len(b)))
    ELSE <<b[1]>> \o Utf8Text(Tail(b))

\* Latin-1: every byte is a character
Latin1Char(c) ==
    CASE c = "C3" -> "A-tilde"
      [] c = "A9" -> "copyright"
      [] c = "E9" -> "e-acute"
      [] c = "89" -> "U+0089"
      [] OTHER -> c

Latin1Text(b) == [i \in 1..Len(b) |-> Latin1Char(b[i])]

\* str(content, encoding), line 43; the codec is not looked up for empty
\* content
StrOf(b, encoding) ==
    IF b = <<>> THEN [raised |-> "none", str |-> <<>>]
    ELSE IF Codec(encoding) = "unknown" THEN [raised |-> "LookupError", str |-> <<>>]
    ELSE IF Codec(encoding) = "latin-1" THEN [raised |-> "none", str |-> Latin1Text(b)]
    ELSE IF Utf8Valid(b) THEN [raised |-> "none", str |-> Utf8Text(b)]
    ELSE [raised |-> "UnicodeDecodeError", str |-> <<>>]

\* json.loads for the documents of the model: the object {} and a string
\* between quotes
IsJsonString(str) ==
    /\ Len(str) >= 2
    /\ str[1] = "QUOTE" /\ str[Len(str)] = "QUOTE"
    /\ \A i \in 2..(Len(str) - 1) : str[i] # "QUOTE"

json_loads(str) ==
    IF str = <<"{}">> THEN [raised |-> "none", data |-> <<"object">>]
    ELSE IF IsJsonString(str)
    THEN [raised |-> "none", data |-> <<"string">> \o SubSeq(str, 2, Len(str) - 1)]
    ELSE [raised |-> "JSONDecodeError", data |-> <<>>]

\* s.startswith(prefix)
StartsWith(str, prefix) == OccursAt(str, prefix, 0)

HttpRaised(type, message, logged) ==
    [raised |-> type, message |-> message, data |-> <<>>, log |-> logged]

\* lines 44-48, with the header and the content decoded
CheckAndLoad(content_type, content_str, logged) ==
    IF ~StartsWith(content_type, APPLICATION_JSON)
    THEN HttpRaised("ValueError",
                    <<"Received Content-Type:">> \o content_type
                        \o <<"  expected Content-Type:">> \o APPLICATION_JSON,
                    logged)
    ELSE IF json_loads(content_str).raised # "none"
    THEN HttpRaised("JSONDecodeError", ErrorMessage("JSONDecodeError"), logged)
    ELSE [raised |-> "none", message |-> <<>>, data |-> json_loads(content_str).data,
          log |-> logged]

\* get_request_json(url), given the reply get_reply returns
get_request_json(reply) ==
    IF ~AsciiDecodes(reply.content_type)
    THEN HttpRaised("UnicodeDecodeError", <<"'ascii' codec can't decode byte">>,
                    get_reply_log(reply))
    ELSE IF StrOf(reply.content, Encoding(reply.content_type)).raised # "none"
    THEN HttpRaised(StrOf(reply.content, Encoding(reply.content_type)).raised,
                    <<"codec">>, get_reply_log(reply))
    ELSE CheckAndLoad(reply.content_type,
                      StrOf(reply.content, Encoding(reply.content_type)).str,
                      get_reply_log(reply))

InitHttp ==
    /\ ParserIdle
    /\ SamplerIdle
    /\ ToolIdle
    /\ hpc = "input"
    /\ hreply \in HttpReplies
    /\ hresult = NoJson

GetRequestJson ==
    /\ hpc = "input"
    /\ hresult' = get_request_json(hreply)
    /\ hpc' = "done"
    /\ UNCHANGED <<hreply, parserVars, samplerVars, toolVars>>

NextHttp == GetRequestJson

SpecHttp == InitHttp /\ [][NextHttp]_vars

----------------------------------------------------------------------------
(* Content-Type check *)

\* C20: get_request_json returns the parsed document only for a
\* Content-Type that starts with application/json; for every other
\* Content-Type, a missing header included, it returns no data and raises
\* an error whose message names the received and the expected type.
C20_ContentTypeCheck ==
    hpc = "done" =>
        /\ hresult.raised = "none" => StartsWith(hreply.content_type, APPLICATION_JSON)
        /\ ~StartsWith(hreply.content_type, APPLICATION_JSON) =>
              /\ hresult.raised # "none"
              /\ hresult.data = <<>>
              /\ Contains(hresult.message,
                          <<"Received Content-Type:">> \o hreply.content_type)
              /\ Contains(hresult.message,
                          <<"  expected Content-Type:">> \o APPLICATION_JSON)

\* an HTML page sent as text/html is refused with both types named
C20_Witness ==
    /\ hpc = "done"
    /\ hreply.content_type = <<"text/html">>
    /\ hreply.content = <<"<html>">>
    /\ hresult.raised = "ValueError"
    /\ hresult.message =
          <<"Received Content-Type:", "text/html", "  expected Content-Type:",
            "application/json">>

----------------------------------------------------------------------------
(* No boundary match *)

\* an XML error document, as a service sends in place of a coverage
XmlDocument == <<"<", "x", ">">>

\* C21: for a buffer in which get_boundary finds no boundary (an empty
\* body and an XML document among them) parse_response completes without
\* raising and returns a list of records.
C21_NoBoundaryCompletes ==
    /\ (ppc = "parsed" /\ ~get_boundary(content).found) => result.raised = "none"
    /\ ~get_boundary(<<>>).found /\ parse_response(<<>>).raised = "none"
    /\ ~get_boundary(XmlDocument).found /\ parse_response(XmlDocument).raised = "none"

\* a buffer whose first line ends in a bare LF has no boundary, and
\* parse_response has raised TypeError
C21_Witness ==
    /\ ppc = "parsed"
    /\ ~get_boundary(content).found
    /\ get_boundary(content).val = <<>>
    /\ result.raised = "TypeError"

----------------------------------------------------------------------------
(* Silent fragment drop *)

\* the fragments between the delimiters of the parsed buffer
Fragments ==
    Slice(Split(content, CRLF \o get_boundary(content).val), 1,
          Len(Split(content, CRLF \o get_boundary(content).val)) - 1)

HasSeparator(fragment) == Contains(fragment, CRLFCRLF)

\* the fragments that hold CRLF CRLF, in the order of the buffer
Separated == SelectSeq(Fragments, HasSeparator)

\* what lies before and after the first CRLF CRLF of a fragment
BeforeFirst(fragment) == Slice(fragment, 0, Find(fragment, CRLFCRLF))
AfterFirst(fragment) ==
    Slice(fragment, Find(fragment, CRLFCRLF) + Len(CRLFCRLF), Len(fragment))

\* C22: of the fragments between the delimiters, those without CRLF CRLF
\* give no record and no error; every other fragment gives its record, in
\* the order of the buffer, whose content is all that follows the first
\* CRLF CRLF of the fragment (a later CRLF CRLF stays in the body).
C22_SilentFragmentDrop ==
    (ppc = "parsed" /\ get_boundary(content).found) =>
        /\ result.raised = "none"
        /\ Len(result.items) = Len(Separated)
        /\ \A k \in 1..Len(Separated) :
              /\ result.items[k].content = AfterFirst(Separated[k])
              /\ result.items[k].headers =
                    CaseInsensitiveDict(header_parser(LStrip(BeforeFirst(Separated[k]))))

\* three fragments: the second, T2, has no CRLF CRLF and is passed over;
\* the third keeps the CRLF CRLF of its body
C22_Witness ==
    /\ ppc = "parsed"
    /\ get_boundary(content).found
    /\ Len(Fragments) = 3
    /\ ~HasSeparator(Fragments[2])
    /\ Len(result.items) = 2
    /\ result.items[1].content = <<"T1">>
    /\ Contains(result.items[2].content, CRLFCRLF)

----------------------------------------------------------------------------
(* Window shape *)

\* twice the centre of the grid cell that contains the coordinate v
CellCentre2(v, origin, cell_size) ==
    2 * origin + (2 * FloorOfQuotient(v - origin, cell_size) + 1) * cell_size

\* twice the centre of an interval
Centre2(bounds) == bounds[1] + bounds[2]

Width(bounds) == bounds[2] - bounds[1]

\* C23: the requested window is two cells wide in x and in y, and its
\* centre is the centre of the grid cell that contains the query point.
C23_WindowShape ==
    (spc # "input") =>
        /\ Width(url.subset_x) = 2 * query.grid.cell_size
        /\ Width(url.subset_y) = 2 * query.grid.cell_size
        /\ Centre2(url.subset_x)
              = CellCentre2(query.x, query.grid.origin[1], query.grid.cell_size)
        /\ Centre2(url.subset_y)
              = CellCentre2(query.y, query.grid.origin[2], query.grid.cell_size)

\* origin 0, cell size 2, x = 5: the window 4 .. 8 is two cells wide, the
\* cell of x is 4 .. 6
C23_Witness ==
    /\ spc = "requested"
    /\ query.grid.origin[1] = 0 /\ query.grid.cell_size = 2 /\ query.x = 5
    /\ Width(url.subset_x) = 4
    /\ Centre2(url.subset_x) = 12
    /\ CellCentre2(query.x, 0, 2) = 10

----------------------------------------------------------------------------
(* Query point CRS *)

\* the coordinates of the point of row r as the input layer holds them
LayerPoint(r) == InCrs(rows[r].rd, params.in_crs)

\* C24: the (x, y) the AHN3 tool has passed to get_ahn_val for its last
\* row are the layer's coordinates of the point transformed once from the
\* CRS of the layer to EPSG:28992 when the two differ, and the layer's
\* coordinates themselves when they do not; they are the point's
\* EPSG:28992 coordinates whatever the Target CRS, and the window
\* requested is the window of those coordinates.
C24_QueryPointInRd ==
    (AhnRun /\ sampled.called) =>
        /\ <<sampled.x, sampled.y>> =
              IF params.in_crs # "EPSG:28992"
              THEN Transform(params.in_crs, "EPSG:28992", LayerPoint(idx))
              ELSE LayerPoint(idx)
        /\ <<sampled.x, sampled.y>> = rows[idx].rd
        /\ requests[Len(requests)].url =
              GetCoverageUrl(rows[idx].rd[1], rows[idx].rd[2], AhnGrid, params.coverage_id)

\* a layer in EPSG:4326 with the Target CRS EPSG:3857, second row
C24_Witness ==
    /\ AhnRun /\ sampled.called
    /\ params.in_crs = "EPSG:4326" /\ params.out_crs = "EPSG:3857"
    /\ idx = 2
    /\ LayerPoint(2) # rows[2].rd
    /\ <<sampled.x, sampled.y>> = rows[2].rd

----------------------------------------------------------------------------
(* The sample stays inside the fetched window *)

\* the raster is exactly the window that was requested, as 2 x 2 cells
WindowReturned == query.gt = WindowGt(query.x, query.y, query.grid)

\* C25: when the raster is exactly the requested window, the column and
\* the row the sampler reads lie in 0 .. 1, also for a point on the lower
\* edge of its cell.
C25_SampleInsideWindow ==
    (spc = "read" /\ WindowReturned) =>
        /\ 0 <= read[1] /\ read[1] <= 1
        /\ 0 <= read[2] /\ read[2] <= 1

\* a point inside its cell: column 0 and row 1 of the window
C25_Witness ==
    /\ spc = "read"
    /\ WindowReturned
    /\ query.grid.cell_size = 2
    /\ query.y # url.subset_y[1]
    /\ read = <<0, 1, 1, 1>>

----------------------------------------------------------------------------
(* get_ahn_val, lines 191-196, in floating-point arithmetic *)

\* Python computes the bounds with floats: every operation gives the
\* representable number nearest to its exact result (ties to the even
\* significand).  A number is held as <<n, d>>, the quotient n / d.

RECURSIVE Pow2(_)
Pow2(k) == IF k = 0 THEN 1 ELSE 2 * Pow2(k - 1)

Abs(v) == IF v < 0 THEN -v ELSE v

\* num / den scaled by powers of two until it lies in
\* 2^(Precision-1) .. 2^Precision; up / down is the scale taken out
RECURSIVE Normalised(_, _, _, _)
Normalised(num, den, up, down) ==
    IF num >= Pow2(Precision) * den THEN Normalised(num, 2 * den, 2 * up, down)
    ELSE IF num < Pow2(Precision - 1) * den THEN Normalised(2 * num, den, up, 2 * down)
    ELSE [num |-> num, den |-> den, up |-> up, down |-> down]

\* num / den rounded to an integer, ties to even
RoundHalfEven(num, den) ==
    IF \/ 2 * (num % den) > den
       \/ (2 * (num % den) = den /\ (num \div den) % 2 = 1)
    THEN (num \div den) + 1
    ELSE num \div den

Significand(nz) == RoundHalfEven(nz.num, nz.den)

Scaled(n, nz) ==
    <<(IF n < 0 THEN -1 ELSE 1) * Significand(nz) * nz.up, nz.down>>

\* the float nearest to n / d, for d > 0
FloatRound(n, d) == IF n = 0 THEN <<0, 1>> ELSE Scaled(n, Normalised(Abs(n), d, 1, 1))

\* the same for an integer, whose nearest float is an integer
FloatOf(v) == FloatRound(v, 1)[1] \div FloatRound(v, 1)[2]

\* C's fmod(v, w) for w > 0: exact, with the sign of v
Fmod(v, w) == IF v >= 0 THEN v % w ELSE -((-v) % w)

\* floatobject.c, float_divmod: div = (vx - mod) / wx, less one when mod
\* and wx differ in sign
DivOf(vx, wx) ==
    IF Fmod(vx, wx) < 0
    THEN FloatRound(FloatRound(FloatOf(vx - Fmod(vx, wx)), wx)[1]
                        - FloatRound(FloatOf(vx - Fmod(vx, wx)), wx)[2],
                    FloatRound(FloatOf(vx - Fmod(vx, wx)), wx)[2])
    ELSE FloatRound(FloatOf(vx - Fmod(vx, wx)), wx)

\* float_divmod: floordiv = floor(div), plus one when div - floordiv > 0.5
FloorOfDiv(div) ==
    IF 2 * FloatRound(div[1] - FloorDiv(div[1], div[2]) * div[2], div[2])[1]
          > FloatRound(div[1] - FloorDiv(div[1], div[2]) * div[2], div[2])[2]
    THEN FloatOf(FloorDiv(div[1], div[2]) + 1)
    ELSE FloorDiv(div[1], div[2])

\* vx // wx on floats, for wx > 0
FloatFloorDiv(vx, wx) == FloorOfDiv(DivOf(vx, wx))

\* line 193: origin + (((x - origin) // cell_size) * cell_size)
LowerBoundFloat(v, origin, cell_size) ==
    FloatOf(origin + FloatOf(FloatFloorDiv(FloatOf(v - origin), cell_size) * cell_size))

\* lines 193-196: the bounds of one axis
SubsetBoundsFloat(v, origin, cell_size) ==
    <<LowerBoundFloat(v, origin, cell_size),
      FloatOf(LowerBoundFloat(v, origin, cell_size) + FloatOf(2 * cell_size))>>

\* the floats of magnitude up to MaxFloat that are integers
Floats == {v \in -MaxFloat..MaxFloat : FloatOf(v) = v}

FloatQueries ==
    [x : Floats, y : {-1, 0, 5},
     grid : [origin : {<<o, 0>> : o \in Floats}, cell_size : {c \in Floats : 0 < c /\ c <= 4}],
     gt : {<<0, 1, 0, 0, 0, -1>>}]

InitFloat ==
    /\ ParserIdle
    /\ ToolIdle
    /\ HttpIdle
    /\ spc = "input"
    /\ query \in FloatQueries
    /\ url = NoUrl
    /\ read = NoRead

\* lines 191-197: the request for the window around (x, y)
RequestWindowFloat ==
    /\ spc = "input"
    /\ url' = [request |-> "GetCoverage",
               coverage |-> "ahn3_05m_dsm",
               format |-> IMAGE_TIFF,
               subset_x |-> SubsetBoundsFloat(query.x, query.grid.origin[1],
                                              query.grid.cell_size),
               subset_y |-> SubsetBoundsFloat(query.y, query.grid.origin[2],
                                              query.grid.cell_size)]
    /\ spc' = "requested"
    /\ UNCHANGED <<query, read, parserVars, toolVars, httpVars>>

NextFloat == RequestWindowFloat

SpecFloat == InitFloat /\ [][NextFloat]_vars

----------------------------------------------------------------------------
(* The window contains the point *)

\* the bounds of one axis hold the coordinate v in their first cell, and
\* start a whole number of cells from the origin
ContainsPoint(bounds, v, origin, cell_size) ==
    /\ bounds[1] <= v
    /\ v < bounds[1] + cell_size
    /\ bounds[1] + cell_size <= bounds[2]
    /\ (bounds[1] - origin) % cell_size = 0

\* C26: for every coordinate, origin and cell size > 0 the bounds the
\* code computes satisfy lower <= v < lower + cell_size <= upper, and
\* lower - origin is a whole multiple of cell_size, in x and in y.
C26_WindowContainsPoint ==
    (spc = "requested") =>
        /\ ContainsPoint(url.subset_x, query.x, query.grid.origin[1], query.grid.cell_size)
        /\ ContainsPoint(url.subset_y, query.y, query.grid.origin[2], query.grid.cell_size)

\* a point below the origin for which no operation rounds
C26_Witness ==
    /\ spc = "requested"
    /\ query.x = -3 /\ query.grid.origin[1] = 2 /\ query.grid.cell_size = 2
    /\ url.subset_x = <<-4, 0>>
    /\ ContainsPoint(url.subset_x, query.x, query.grid.origin[1], query.grid.cell_size)

----------------------------------------------------------------------------
(* Attributes are carried over *)

ProviderTools == {"PDOKWCSTool", "PDOKGeocoder", "PDOKReverseGeocoder"}

\* the fields of the output layer of the run
OutFields ==
    CASE tool = "PDOKWCSTool" -> AhnFields(params.attribute_name)
      [] tool \in GeocoderTools -> GeocoderFields(params)
      [] OTHER -> ReverseFields(params)

\* the names of the fields the tool adds to those of the input layer
AddedNames ==
    CASE tool = "PDOKWCSTool" -> {params.attribute_name}
      [] tool \in GeocoderTools ->
            (IF params.add_xy_field THEN {"x", "y"} ELSE {})
               \cup (IF params.add_display_name THEN {"weergavenaam"} ELSE {})
      [] OTHER -> {TargetAttName(params)}

NoCollision == AddedNames \cap {FieldNames[i] : i \in 1..Len(FieldNames)} = {}

\* the value a written feature holds under a field name
Held(f, name) ==
    f.attributes[CHOOSE i \in 1..Len(OutFields) : OutFields[i] = name]

\* C27: when no added field has the name of a field of the input layer,
\* every feature written by the AHN3 tool, the geocoder or the reverse
\* geocoder holds each attribute of its input feature, unchanged, under
\* the name of its field, and has no other fields than those and the
\* added ones.
C27_AttributesCarriedOver ==
    (tool \in ProviderTools /\ NoCollision) =>
        \A j \in 1..Len(sink) :
            /\ Len(sink[j].attributes) = Len(FieldNames) + Cardinality(AddedNames)
            /\ \A i \in 1..Len(FieldNames) :
                  /\ Held(sink[j], FieldNames[i]) = rows[sink[j].row].attrs[i]
                  /\ sink[j].attributes[i] = rows[sink[j].row].attrs[i]

\* the reverse geocoder with the target attribute straat: the feature
\* f1 keeps its id and its adres, and has the address found in straat
C27_Witness ==
    /\ tool = "PDOKReverseGeocoder"
    /\ NoCollision
    /\ Len(sink) = 1
    /\ sink[1].attributes = <<Str("f1"), Str("Dam 1"), Str(DocAdres.weergavenaam)>>

----------------------------------------------------------------------------
(* The geocoder's output as a filtered subsequence of its input *)

\* the run of the provider's geocoder came to "return results"
GeocoderCompleted == tool = "PDOKGeocoder" /\ outcome = ReturnedResults

SourceIsNull(r) == Attribute(rows[r], params.src_field) = Null

\* the free query of row r was parsed and gave result documents
GaveResults(r) ==
    /\ RowReplies(r) # <<>>
    /\ free_query(RowReplies(r)[1].reply).raised = "none"
    /\ free_query(RowReplies(r)[1].reply).docs # <<>>

\* line 312: the first result of row r is excluded by the score threshold
ExcludedByScore(r) ==
    /\ params.score_treshold # None
    /\ RowDocs(r)[1].score <= params.score_treshold.v

\* the rows the claim gives an output feature
Selected(r) == ~SourceIsNull(r) /\ GaveResults(r) /\ ~ExcludedByScore(r)

\* the rows the loop passes over: null source, no result, excluded result
PassedOver(r) ==
    \/ SourceIsNull(r)
    \/ /\ RowReplies(r) # <<>>
       /\ free_query(RowReplies(r)[1].reply).raised = "none"
       /\ ~Selected(r)

\* C28: when a run of the geocoder completes, the rows of the written
\* features increase strictly (at most one feature per input feature, in
\* input order), a row has a feature exactly when its source attribute is
\* not null, its query gave at least one result and the first result is
\* not excluded by the score threshold, and a row with a null source
\* attribute has no request; and in no state did the run end with an
\* exception in a row that the loop passes over.
C28_FilteredSubsequence ==
    /\ GeocoderCompleted =>
          /\ \A j, k \in 1..Len(sink) : j < k => sink[j].row < sink[k].row
          /\ \A r \in 1..Len(rows) :
                /\ (RowFeatures(r) # <<>>) <=> Selected(r)
                /\ SourceIsNull(r) => \A i \in 1..Len(requests) : requests[i].row # r
    /\ (tool = "PDOKGeocoder" /\ outcome.kind = "QgsProcessingException") =>
          ~PassedOver(idx)

\* a completed run over f1 and f2: f1 is geocoded and written, f2 has a
\* null source attribute and is passed over without a request
C28_Witness ==
    /\ GeocoderCompleted
    /\ Len(rows) = 2 /\ idx = 2
    /\ Selected(1) /\ SourceIsNull(2)
    /\ Len(sink) = 1 /\ sink[1].row = 1
    /\ Len(requests) = 1

----------------------------------------------------------------------------
(* The type filter of the script *)

\* the types the string form of a filter is to name: the filter type
\* alone, or all five when none is given
NamedTypes(filterType) ==
    IF filterType # "" THEN <<filterType>> ELSE LsTypeNames

\* C29: the string form of a TypeFilterQuery constructed with a filter
\* type names that type and no other, and the string form of one
\* constructed without a filter type names adres, gemeente, postcode, weg
\* and woonplaats in this order; so the filter in every free query of the
\* script names the result type of the run alone.
C29_TypeFilter ==
    /\ TypeFilterQueryStr(TypeFilterQuery("")) = NamedTypes("")
    /\ \A k \in 1..Len(requests) :
          (tool = "PDOKGeocoderScript" /\ requests[k].url.endpoint = "free") =>
              requests[k].url.fq
                 = TypeFilterQueryStr(TypeFilterQuery(params.result_type))
    /\ tool = "PDOKGeocoderScript" =>
          TypeFilterQueryStr(TypeFilterQuery(params.result_type))
             = NamedTypes(params.result_type)

\* the script has sent a free query, and a filter constructed without a
\* filter type names all five types
C29_Witness ==
    /\ tool = "PDOKGeocoderScript"
    /\ Len(requests) >= 1
    /\ requests[1].url.endpoint = "free"
    /\ TypeFilterQueryStr(TypeFilterQuery(""))
          = <<"adres", "gemeente", "postcode", "weg", "woonplaats">>

----------------------------------------------------------------------------
(* Failure logging *)

\* the blocking request or the reply reports an error
ReportsError(reply) == reply.err # "NoError" \/ reply.replyError # "NoError"

\* what the function that fetched a reply of the run logged for it:
\* get_reply in the AHN3 tool, get_request in the geocoders
LoggedFor(reply) ==
    IF tool = "PDOKWCSTool" THEN get_reply_log(reply) ELSE get_request_log(reply)

\* C30: for every reply a run of the AHN3 tool or of a geocoder has
\* fetched, get_reply or get_request logged "SERVER ERROR OCCURED" exactly
\* when the blocking request or the reply reported an error; so the log of
\* the run is empty exactly when no reply reported an error.
C30_FailureLogging ==
    tool \in {"PDOKWCSTool"} \cup GeocoderTools =>
        /\ \A k \in 1..Len(replies) :
              (\E i \in 1..Len(LoggedFor(replies[k].reply)) :
                  LoggedFor(replies[k].reply)[i] = "SERVER ERROR OCCURED")
                <=> ReportsError(replies[k].reply)
        /\ (log = <<>>) <=> \A k \in 1..Len(replies) : ~ReportsError(replies[k].reply)

\* the reply to the first free query of a geocoder run reported an error
\* and was handed on: the run is at its next row, without an exception
C30_Witness ==
    /\ tool = "PDOKGeocoder"
    /\ Len(rows) = 2 /\ idx = 1 /\ pc = "rows"
    /\ Len(replies) = 1
    /\ ReportsError(replies[1].reply)
    /\ outcome = Running

====
